---------------------------- MODULE Spec2Model ----------------------------
(***************************************************************************)
(* Protocol engine of the Switch 2 controller driver: the session         *)
(* registry (switch2_get_controller / switch2_controller_put), the two    *)
(* attachment paths (the HID driver's probe/remove and the USB driver's   *)
(* probe/disconnect), the initialization state machine                    *)
(* (switch2_init_controller), the inbound command dispatch                *)
(* (switch2_receive_command) and the bulk-out command queue               *)
(* (switch2_usb_send_cmd / switch2_bulk_out).                             *)
(*                                                                         *)
(* Pointers are modelled by what they point to: a session pointer is the  *)
(* number of its allocation, hdev and cfg are the physical path of the    *)
(* interface they belong to, NULL is NULL.  Memory allocation and         *)
(* usb_submit_urb are taken to succeed: a command submission fails when   *)
(* the output queue is full.                                              *)
(***************************************************************************)
EXTENDS Integers, Sequences, FiniteSets, TLC

\* ------------------------------------------------------------ bounds
\* Sessions allocated over one behaviour (kzalloc in switch2_get_controller).
MaxSessions == 2

\* ------------------------------------------------------------ constants
NULL == "NULL"

EINVAL == 22
ENOBUFS == 105
ENOTCONN == 107
ENOMEM == 12

NS2_FLASH_ADDR_SERIAL == 77826
NS2_FLASH_ADDR_FACTORY_PRIMARY_CALIB == 77992
NS2_FLASH_ADDR_FACTORY_SECONDARY_CALIB == 78056
NS2_FLASH_ADDR_FACTORY_TRIGGER_CALIB == 78144
NS2_FLASH_ADDR_USER_PRIMARY_CALIB == 2080832
NS2_FLASH_ADDR_USER_SECONDARY_CALIB == 2080896

NS2_FLASH_SIZE_SERIAL == 16
NS2_FLASH_SIZE_FACTORY_AXIS_CALIB == 9
NS2_FLASH_SIZE_FACTORY_TRIGGER_CALIB == 2
NS2_FLASH_SIZE_USER_AXIS_CALIB == 11

NS2_USER_CALIB_MAGIC == 41394

NS2_FEATURE_BUTTONS == 1
NS2_FEATURE_ANALOG == 2
NS2_FEATURE_IMU == 4
NS2_FEATURE_RUMBLE == 32

NS2_CMD_NFC == 1
NS2_CMD_FLASH == 2
NS2_CMD_INIT == 3
NS2_CMD_GRIP == 8
NS2_CMD_LED == 9
NS2_CMD_FEATSEL == 12
NS2_CMD_FW_INFO == 16

NS2_SUBCMD_FLASH_READ == 4
NS2_SUBCMD_INIT_USB == 13
NS2_SUBCMD_FEATSEL_SET_MASK == 2
NS2_SUBCMD_FEATSEL_ENABLE == 4
NS2_SUBCMD_GRIP_ENABLE_BUTTONS == 2
NS2_SUBCMD_LED_PATTERN == 7
NS2_SUBCMD_FW_INFO_GET == 1

NS2_CTLR_TYPE_JCL == 0
NS2_CTLR_TYPE_JCR == 1
NS2_CTLR_TYPE_PRO == 2
NS2_CTLR_TYPE_GC == 3

NS2_INIT_STARTING == 0
NS2_INIT_READ_SERIAL == 1
NS2_INIT_READ_FACTORY_PRIMARY_CALIB == 2
NS2_INIT_READ_FACTORY_SECONDARY_CALIB == 3
NS2_INIT_READ_FACTORY_TRIGGER_CALIB == 4
NS2_INIT_READ_USER_PRIMARY_CALIB == 5
NS2_INIT_READ_USER_SECONDARY_CALIB == 6
NS2_INIT_SET_FEATURE_MASK == 7
NS2_INIT_ENABLE_FEATURES == 8
NS2_INIT_GET_FIRMWARE_INFO == 9
NS2_INIT_ENABLE_RUMBLE == 10
NS2_INIT_GRIP_BUTTONS == 11
NS2_INIT_SET_PLAYER_LEDS == 12
NS2_INIT_INPUT == 13
NS2_INIT_DONE == 14

NS2_OUT_URBS == 4
NS2_IN_URBS == 2
NS2_MAX_PLAYER_ID == 8
RUMBLE_MAX == 450
RUMBLE_HI_FREQ == 391
RUMBLE_LO_FREQ == 274
GC_RUMBLE_OFF == 0
GC_RUMBLE_ON == 1
GC_RUMBLE_STOP == 2
U16_MAX == 65535
CmdHeaderSize == 8
MaxPayload == 56
VersionInfoSize == 12

switch2_ctlr_is_joycon(type) ==
    type = NS2_CTLR_TYPE_JCL \/ type = NS2_CTLR_TYPE_JCR

switch2_init_cmd_data == <<1, 0, 255, 255, 255, 255, 255, 255>>
switch2_one_data == <<1, 0, 0, 0>>
switch2_zero_data == <<0, 0, 0, 0>>
switch2_player_pattern == <<1, 3, 7, 15, 9, 5, 13, 6>>
switch2_feature_mask ==
    <<NS2_FEATURE_BUTTONS + NS2_FEATURE_ANALOG + NS2_FEATURE_IMU + NS2_FEATURE_RUMBLE,
      0, 0, 0>>

\* Little-endian bytes of a 32-bit value (__cpu_to_le32).
Le32(v) ==
    << v % 256, (v \div 256) % 256, (v \div 65536) % 256, (v \div 16777216) % 256 >>

\* ------------------------------------------------------------ state
VARIABLES
    switch2_controllers,  \* the registry list: session pointers, head first
    heap,                 \* session pointer -> struct switch2_controller
    alive,                \* allocated (kzalloc'ed, not kfree'd) sessions
    nalloc,               \* sessions allocated so far
    hid,                  \* per physical path: the HID interface's driver context
    usb,                  \* per physical path: the USB interface's struct switch2_usb
    ida,                  \* switch2_player_id_allocator: ids in use
    wire,                 \* per physical path: commands the device has not answered
    devtype,              \* per physical path: the device's controller type byte
    seen,                 \* per session: the kinds of valid flash reply handled
    work,                 \* per session: its rumble_work item in the workqueue
    last                  \* observation of the last probe, release or receive

vars == << switch2_controllers, heap, alive, nalloc, hid, usb, ida, wire,
           devtype, seen, work, last >>

Paths == {"usb-1", "usb-2"}
Sessions == 1..MaxSessions
NoneSeen == [i \in Sessions |-> {}]

\* A delayed work item that is neither queued nor running; current_ms is the
\* time its handler read when it last started, buffer the report it built,
\* ticks the number of times it has started.
NoPacket == [kind |-> 0, seq |-> 0, body |-> << >>, stamp |-> 0]
IdleWork ==
    [pending |-> FALSE, pc |-> "idle", current_ms |-> 0, buffer |-> NoPacket, ticks |-> 0]
NoWork == [i \in Sessions |-> IdleWork]


\* ------------------------------------------------------------ session
ZeroAxis == [neutral |-> 0, negative |-> 0, positive |-> 0]
ZeroStick == [x |-> ZeroAxis, y |-> ZeroAxis]

\* A session as kzalloc leaves it.  rumble is the storage of the union of
\* struct switch2_hd_rumble and struct switch2_erm_rumble, kept as the four
\* 10-bit fields of the former.
ZeroController ==
    [ hdev |-> NULL, cfg |-> NULL, phys |-> "",
      ctlr_type |-> 0, init_step |-> NS2_INIT_STARTING, input |-> NULL,
      serial |-> << >>,
      version |-> [major |-> 0, minor |-> 0, patch |-> 0, ctlr_type |-> 0,
                   unk |-> <<0, 0, 0, 0>>, dsp_major |-> 0, dsp_minor |-> 0,
                   dsp_patch |-> 0, dsp_type |-> 0],
      stick_calib |-> <<ZeroStick, ZeroStick>>,
      lt_zero |-> 0, rt_zero |-> 0,
      player_id |-> 0,
      rumble_lock |-> "free", rumble_seq |-> 0,
      rumble |-> [hi_freq |-> 0, hi_amp |-> 0, lo_freq |-> 0, lo_amp |-> 0],
      last_rumble_work |-> 0 ]

\* struct switch2_usb as devm_kzalloc leaves it, and its states as an interface:
\* "detached" (no driver bound), "bound" (probe returned 0), "failed" (probe
\* returned an error: the driver core unbinds and frees the devm memory).
FreshSlot == [active |-> FALSE, submitted |-> FALSE]
\* An inbound slot (struct switch2_urb of bulk_in): its active flag, whether
\* its URB is with the host controller, whether the URB is on an anchor, and
\* the number of the frame its transfer buffer holds (0: none yet).
FreshIn == [active |-> FALSE, submitted |-> FALSE, anchored |-> FALSE, frame |-> 0]
\* message_in_work: queued or not, where its one running instance is, and the
\* slot that instance took from message_in.
IdleInWork == [pending |-> FALSE, pc |-> "idle", urb |-> 1]
\* Where the work item is inside switch2_parse_stick_calibration: the slot of
\* stick_calib it writes (0: it is not inside), the nine bytes it parses and
\* the number of assignments it has made.
NoParse == [slot |-> 0, n |-> 0, data |-> << >>]
\* struct switch2_usb after devm_kzalloc.  Slots are numbered from 1, so
\* message_in is 1 where the C code has index 0.  irq is TRUE while
\* switch2_bulk_in is between its unlock and its schedule_work; freed is TRUE
\* once the transfer buffers have been released; completed and received
\* record the frames whose transfers completed with status 0 and the frames
\* handed to switch2_receive_command, in order; failed records a completion
\* with another status.
FreshUsb == [pc |-> "detached", parent |-> 0,
             bulk_out |-> [i \in 1..NS2_OUT_URBS |-> FreshSlot],
             bulk_in |-> [i \in 1..NS2_IN_URBS |-> FreshIn],
             message_in |-> 1, message_in_work |-> IdleInWork,
             irq |-> FALSE, freed |-> FALSE, parse |-> NoParse,
             completed |-> << >>, received |-> << >>, failed |-> FALSE]
\* switch2_usb_probe up to switch2_get_controller: the first inbound URB is
\* marked active and submitted, on no anchor.
ProbedUsb(id) ==
    [FreshUsb EXCEPT !.parent = id, !.bulk_in[1].active = TRUE,
                     !.bulk_in[1].submitted = TRUE]
FreshHid == [pc |-> "detached", drvdata |-> 0]

NoCalls == << >>
Call(command, subcommand, message, ret) ==
    [command |-> command, subcommand |-> subcommand, message |-> message, ret |-> ret]

\* ------------------------------------------------------------ command path
\* What usb_submit_urb returns for a bulk-out URB: submission to the host
\* controller is taken to succeed, as memory allocation is.
UsbSubmitUrb == 0

\* switch2_usb_send_cmd: claim the first inactive bulk-out slot, submit it.
UsbSendCmd(u, command, subcommand, message) ==
    LET size == Len(message)
        submit_ret == UsbSubmitUrb
        free == {i \in 1..NS2_OUT_URBS : ~u.bulk_out[i].active}
        slot == CHOOSE i \in free : \A j \in free : i <= j
    IN  IF size > MaxPayload
        THEN [usb |-> u, ret |-> -EINVAL,
              calls |-> <<Call(command, subcommand, message, -EINVAL)>>]
        ELSE IF free = {}
        THEN [usb |-> u, ret |-> -ENOBUFS,
              calls |-> <<Call(command, subcommand, message, -ENOBUFS)>>]
        ELSE IF submit_ret # 0
        THEN [usb |-> u, ret |-> submit_ret,
              calls |-> <<Call(command, subcommand, message, submit_ret)>>]
        ELSE [usb |-> [u EXCEPT !.bulk_out[slot] =
                                  [active |-> TRUE, submitted |-> TRUE]],
              ret |-> 0,
              calls |-> <<Call(command, subcommand, message, 0)>>]

\* switch2_bulk_out: the completion callback of a bulk-out URB.
BulkOut(u, slot, status) ==
    IF status = 0
    THEN [u EXCEPT !.bulk_out[slot] = FreshSlot]
    ELSE [u EXCEPT !.bulk_out[slot].submitted = FALSE]

NotConnected(c, u) == [ns2 |-> c, usb |-> u, ret |-> -ENOTCONN, calls |-> NoCalls]

SendVia(c, u, command, subcommand, message) ==
    LET r == UsbSendCmd(u, command, subcommand, message)
    IN  [ns2 |-> c, usb |-> r.usb, ret |-> r.ret, calls |-> r.calls]

\* switch2_read_flash
ReadFlash(c, u, address, size) ==
    IF c.cfg = NULL
    THEN NotConnected(c, u)
    ELSE SendVia(c, u, NS2_CMD_FLASH, NS2_SUBCMD_FLASH_READ,
                 <<size, 126, 0, 0>> \o Le32(address))

\* switch2_features_enable
FeaturesEnable(c, u, features) ==
    IF c.cfg = NULL
    THEN NotConnected(c, u)
    ELSE SendVia(c, u, NS2_CMD_FEATSEL, NS2_SUBCMD_FEATSEL_ENABLE,
                 Le32(features))

\* switch2_set_player_id
SetPlayerId(c, u, player_id) ==
    IF c.cfg = NULL
    THEN NotConnected(c, u)
    ELSE SendVia(c, u, NS2_CMD_LED, NS2_SUBCMD_LED_PATTERN,
                 <<switch2_player_pattern[(player_id % NS2_MAX_PLAYER_ID) + 1],
                   0, 0, 0, 0, 0, 0, 0>>)

\* switch2_init_input: register the input device unless one is registered.
InitInput(c) ==
    IF c.input # NULL
    THEN [ns2 |-> c, ret |-> 0]
    ELSE IF c.ctlr_type \in {NS2_CTLR_TYPE_JCL, NS2_CTLR_TYPE_JCR,
                             NS2_CTLR_TYPE_GC, NS2_CTLR_TYPE_PRO}
    THEN [ns2 |-> [c EXCEPT !.input = "input"], ret |-> 0]
    ELSE [ns2 |-> c, ret |-> -EINVAL]

\* The while loop of switch2_init_controller, `while (init_step < done)': one
\* pass increments init_step and either returns what the step's send returned
\* or falls through to the next pass.
RECURSIVE InitSteps(_, _, _)
InitSteps(c, u, done) ==
    IF ~(c.init_step < done)
    THEN [ns2 |-> c, usb |-> u, ret |-> 0, calls |-> NoCalls]
    ELSE
    LET n == [c EXCEPT !.init_step = @ + 1]
        step == n.init_step
    IN  CASE step = NS2_INIT_READ_SERIAL ->
               ReadFlash(n, u, NS2_FLASH_ADDR_SERIAL, NS2_FLASH_SIZE_SERIAL)
          [] step = NS2_INIT_GET_FIRMWARE_INFO ->
               SendVia(n, u, NS2_CMD_FW_INFO, NS2_SUBCMD_FW_INFO_GET, << >>)
          [] step = NS2_INIT_READ_FACTORY_PRIMARY_CALIB ->
               ReadFlash(n, u, NS2_FLASH_ADDR_FACTORY_PRIMARY_CALIB,
                         NS2_FLASH_SIZE_FACTORY_AXIS_CALIB)
          [] step = NS2_INIT_READ_FACTORY_SECONDARY_CALIB ->
               IF switch2_ctlr_is_joycon(n.ctlr_type)
               THEN InitSteps(n, u, done)
               ELSE ReadFlash(n, u, NS2_FLASH_ADDR_FACTORY_SECONDARY_CALIB,
                              NS2_FLASH_SIZE_FACTORY_AXIS_CALIB)
          [] step = NS2_INIT_READ_FACTORY_TRIGGER_CALIB ->
               IF n.ctlr_type # NS2_CTLR_TYPE_GC
               THEN InitSteps(n, u, done)
               ELSE ReadFlash(n, u, NS2_FLASH_ADDR_FACTORY_TRIGGER_CALIB,
                              NS2_FLASH_SIZE_FACTORY_TRIGGER_CALIB)
          [] step = NS2_INIT_READ_USER_PRIMARY_CALIB ->
               ReadFlash(n, u, NS2_FLASH_ADDR_USER_PRIMARY_CALIB,
                         NS2_FLASH_SIZE_USER_AXIS_CALIB)
          [] step = NS2_INIT_READ_USER_SECONDARY_CALIB ->
               IF switch2_ctlr_is_joycon(n.ctlr_type)
               THEN InitSteps(n, u, done)
               ELSE ReadFlash(n, u, NS2_FLASH_ADDR_USER_SECONDARY_CALIB,
                              NS2_FLASH_SIZE_USER_AXIS_CALIB)
          [] step = NS2_INIT_SET_FEATURE_MASK ->
               SendVia(n, u, NS2_CMD_FEATSEL, NS2_SUBCMD_FEATSEL_SET_MASK,
                       switch2_feature_mask)
          [] step = NS2_INIT_ENABLE_FEATURES ->
               FeaturesEnable(n, u, NS2_FEATURE_BUTTONS + NS2_FEATURE_ANALOG
                                    + NS2_FEATURE_RUMBLE)
          [] step = NS2_INIT_ENABLE_RUMBLE ->
               SendVia(n, u, NS2_CMD_NFC, 1, switch2_zero_data)
          [] step = NS2_INIT_GRIP_BUTTONS ->
               IF ~switch2_ctlr_is_joycon(n.ctlr_type)
               THEN InitSteps(n, u, done)
               ELSE SendVia(n, u, NS2_CMD_GRIP, NS2_SUBCMD_GRIP_ENABLE_BUTTONS,
                            switch2_one_data)
          [] step = NS2_INIT_SET_PLAYER_LEDS ->
               SetPlayerId(n, u, n.player_id)
          [] step = NS2_INIT_INPUT ->
               SendVia(n, u, NS2_CMD_INIT, NS2_SUBCMD_INIT_USB,
                       switch2_init_cmd_data)
          [] step = NS2_INIT_DONE ->
               IF n.hdev # NULL
               THEN LET r == InitInput(n)
                    IN  [ns2 |-> r.ns2, usb |-> u, ret |-> r.ret, calls |-> NoCalls]
               ELSE InitSteps(n, u, done)
          [] OTHER -> InitSteps(n, u, done)

\* A loop that runs one pass too many: `while (init_step <= NS2_INIT_DONE)'.
InitLoopPastDone(c, u) == InitSteps(c, u, NS2_INIT_DONE + 1)

\* The loop as written: `while (ns2->init_step < NS2_INIT_DONE)'.
InitLoop(c, u) == InitSteps(c, u, NS2_INIT_DONE)

\* An advance that tests the command path handle before the step.
InitControllerCfgFirst(c, u) ==
    IF c.cfg = NULL
    THEN NotConnected(c, u)
    ELSE IF c.init_step = NS2_INIT_DONE
    THEN [ns2 |-> c, usb |-> u, ret |-> 0, calls |-> NoCalls]
    ELSE InitLoop(c, u)

\* An advance that does not test the command path handle at all.
InitControllerNoCfgCheck(c, u) ==
    IF c.init_step = NS2_INIT_DONE
    THEN [ns2 |-> c, usb |-> u, ret |-> 0, calls |-> NoCalls]
    ELSE InitLoop(c, u)

\* An advance whose steps `break' after their send instead of returning: the
\* loop goes on to the next step that runs.
InitControllerNoReturn(c, u) ==
    IF c.init_step = NS2_INIT_DONE
    THEN [ns2 |-> c, usb |-> u, ret |-> 0, calls |-> NoCalls]
    ELSE IF c.cfg = NULL
    THEN NotConnected(c, u)
    ELSE LET a == InitLoop(c, u)
             b == InitLoop(a.ns2, a.usb)
         IN  [ns2 |-> b.ns2, usb |-> b.usb, ret |-> b.ret,
              calls |-> a.calls \o b.calls]

\* switch2_init_controller, on session c whose cfg (if any) is the struct u.
InitController(c, u) ==
    IF c.init_step = NS2_INIT_DONE
    THEN [ns2 |-> c, usb |-> u, ret |-> 0, calls |-> NoCalls]
    ELSE IF c.cfg = NULL
    THEN NotConnected(c, u)
    ELSE InitLoop(c, u)


\* ------------------------------------------------------------ inbound frames
\* A frame is its delivered length, the command and subcommand bytes of its
\* header, and the bytes after the header.  A read past the delivered length
\* returns what the transfer buffer held there before: the frame's stale byte.
Frame(length, command, subcommand, message, stale) ==
    [length |-> length, command |-> command, subcommand |-> subcommand,
     message |-> message, stale |-> stale]

\* message[k] of the C code (k counted from 0, after the 8-byte header).
Byte(f, k) == IF k + 1 <= Len(f.message) THEN f.message[k + 1] ELSE f.stale

\* A byte stored in an int8_t.
Int8(b) == IF b >= 128 THEN b - 256 ELSE b

\* `memcpy(&ns2->version, message, sizeof(ns2->version))': the twelve bytes
\* after the header, laid over struct switch2_version_info.
VersionInfo(f) ==
    [major |-> Byte(f, 0), minor |-> Byte(f, 1), patch |-> Byte(f, 2),
     ctlr_type |-> Byte(f, 3),
     unk |-> <<Byte(f, 4), Byte(f, 5), Byte(f, 6), Byte(f, 7)>>,
     dsp_major |-> Int8(Byte(f, 8)), dsp_minor |-> Int8(Byte(f, 9)),
     dsp_patch |-> Int8(Byte(f, 10)), dsp_type |-> Int8(Byte(f, 11))]

\* A parse that takes the positive range from the bytes of the negative one
\* and the other way round.
ParseStickCalibrationSwapped(calib, d) ==
    IF \A i \in 1..9 : d[i] = 255
    THEN [ok |-> FALSE, calib |-> calib]
    ELSE [ok |-> TRUE,
          calib |->
            [x |-> [neutral  |-> d[1] + (d[2] % 16) * 256,
                    positive |-> d[7] + (d[8] % 16) * 256,
                    negative |-> d[4] + (d[5] % 16) * 256],
             y |-> [neutral  |-> (d[2] \div 16) + d[3] * 16,
                    positive |-> (d[8] \div 16) + d[9] * 16,
                    negative |-> (d[5] \div 16) + d[6] * 16]]]

\* switch2_parse_stick_calibration on the nine bytes d (1-based).
ParseStickCalibration(calib, d) ==
    IF \A i \in 1..9 : d[i] = 255
    THEN [ok |-> FALSE, calib |-> calib]
    ELSE [ok |-> TRUE,
          calib |->
            [x |-> [neutral  |-> d[1] + (d[2] % 16) * 256,
                    positive |-> d[4] + (d[5] % 16) * 256,
                    negative |-> d[7] + (d[8] % 16) * 256],
             y |-> [neutral  |-> (d[2] \div 16) + d[3] * 16,
                    positive |-> (d[5] \div 16) + d[6] * 16,
                    negative |-> (d[8] \div 16) + d[9] * 16]]]

\* A flash-read handler that parses the user blocks without looking at the magic.
HandleFlashReadNoMagic(c, size, address, data) ==
    LET user  == [i \in 1..9 |-> data[i + 2]]
        magic == data[1] + data[2] * 256
    IN  CASE address = NS2_FLASH_ADDR_SERIAL ->
               IF size # NS2_FLASH_SIZE_SERIAL THEN c
               ELSE [c EXCEPT !.serial = [i \in 1..NS2_FLASH_SIZE_SERIAL |-> data[i]]]
          [] address = NS2_FLASH_ADDR_FACTORY_PRIMARY_CALIB ->
               IF size # NS2_FLASH_SIZE_FACTORY_AXIS_CALIB THEN c
               ELSE [c EXCEPT !.stick_calib[1] = ParseStickCalibration(@, data).calib]
          [] address = NS2_FLASH_ADDR_FACTORY_SECONDARY_CALIB ->
               IF size # NS2_FLASH_SIZE_FACTORY_AXIS_CALIB THEN c
               ELSE [c EXCEPT !.stick_calib[2] = ParseStickCalibration(@, data).calib]
          [] address = NS2_FLASH_ADDR_FACTORY_TRIGGER_CALIB ->
               IF size # NS2_FLASH_SIZE_FACTORY_TRIGGER_CALIB THEN c
               ELSE IF data[1] # 255 /\ data[2] # 255
               THEN [c EXCEPT !.lt_zero = data[1], !.rt_zero = data[2]]
               ELSE c
          [] address = NS2_FLASH_ADDR_USER_PRIMARY_CALIB ->
               IF size # NS2_FLASH_SIZE_USER_AXIS_CALIB THEN c
               ELSE [c EXCEPT !.stick_calib[1] = ParseStickCalibration(@, user).calib]
          [] address = NS2_FLASH_ADDR_USER_SECONDARY_CALIB ->
               IF size # NS2_FLASH_SIZE_USER_AXIS_CALIB THEN c
               ELSE [c EXCEPT !.stick_calib[2] = ParseStickCalibration(@, user).calib]
          [] OTHER -> c

\* switch2_handle_flash_read; data[k] is the k-th byte (1-based) of the block.
HandleFlashRead(c, size, address, data) ==
    LET user  == [i \in 1..9 |-> data[i + 2]]
        magic == data[1] + data[2] * 256
    IN  CASE address = NS2_FLASH_ADDR_SERIAL ->
               IF size # NS2_FLASH_SIZE_SERIAL THEN c
               ELSE [c EXCEPT !.serial = [i \in 1..NS2_FLASH_SIZE_SERIAL |-> data[i]]]
          [] address = NS2_FLASH_ADDR_FACTORY_PRIMARY_CALIB ->
               IF size # NS2_FLASH_SIZE_FACTORY_AXIS_CALIB THEN c
               ELSE [c EXCEPT !.stick_calib[1] = ParseStickCalibration(@, data).calib]
          [] address = NS2_FLASH_ADDR_FACTORY_SECONDARY_CALIB ->
               IF size # NS2_FLASH_SIZE_FACTORY_AXIS_CALIB THEN c
               ELSE [c EXCEPT !.stick_calib[2] = ParseStickCalibration(@, data).calib]
          [] address = NS2_FLASH_ADDR_FACTORY_TRIGGER_CALIB ->
               IF size # NS2_FLASH_SIZE_FACTORY_TRIGGER_CALIB THEN c
               ELSE IF data[1] # 255 /\ data[2] # 255
               THEN [c EXCEPT !.lt_zero = data[1], !.rt_zero = data[2]]
               ELSE c
          [] address = NS2_FLASH_ADDR_USER_PRIMARY_CALIB ->
               IF size # NS2_FLASH_SIZE_USER_AXIS_CALIB THEN c
               ELSE IF magic # NS2_USER_CALIB_MAGIC THEN c
               ELSE [c EXCEPT !.stick_calib[1] = ParseStickCalibration(@, user).calib]
          [] address = NS2_FLASH_ADDR_USER_SECONDARY_CALIB ->
               IF size # NS2_FLASH_SIZE_USER_AXIS_CALIB THEN c
               ELSE IF magic # NS2_USER_CALIB_MAGIC THEN c
               ELSE [c EXCEPT !.stick_calib[2] = ParseStickCalibration(@, user).calib]
          [] OTHER -> c

\* A dispatch that does not compare the frame length with the declared size.
DispatchNoSizeCheck(c, f) ==
    CASE f.command = NS2_CMD_FLASH /\ f.subcommand = NS2_SUBCMD_FLASH_READ ->
           LET read_size == Byte(f, 0)
               read_address == Byte(f, 4) + Byte(f, 5) * 256 + Byte(f, 6) * 65536
                               + Byte(f, 7) * 16777216
           IN  IF f.length < 16 THEN [ns2 |-> c, ret |-> -EINVAL]
               ELSE [ns2 |-> HandleFlashRead(c, read_size, read_address,
                                             [k \in 1..16 |-> Byte(f, 7 + k)]),
                     ret |-> 0]
      [] f.command = NS2_CMD_FW_INFO /\ f.subcommand = NS2_SUBCMD_FW_INFO_GET ->
           IF f.length < VersionInfoSize THEN [ns2 |-> c, ret |-> -EINVAL]
           ELSE [ns2 |-> [c EXCEPT !.version = VersionInfo(f),
                                   !.ctlr_type = Byte(f, 3)],
                 ret |-> 0]
      [] OTHER -> [ns2 |-> c, ret |-> 0]

\* The command dispatch of switch2_receive_command, after the init trigger.
Dispatch(c, f) ==
    CASE f.command = NS2_CMD_FLASH /\ f.subcommand = NS2_SUBCMD_FLASH_READ ->
           LET read_size == Byte(f, 0)
               read_address == Byte(f, 4) + Byte(f, 5) * 256 + Byte(f, 6) * 65536
                               + Byte(f, 7) * 16777216
           IN  IF f.length < 16 THEN [ns2 |-> c, ret |-> -EINVAL]
               ELSE IF f.length < read_size + 16 THEN [ns2 |-> c, ret |-> -EINVAL]
               ELSE [ns2 |-> HandleFlashRead(c, read_size, read_address,
                                             [k \in 1..16 |-> Byte(f, 7 + k)]),
                     ret |-> 0]
      [] f.command = NS2_CMD_FW_INFO /\ f.subcommand = NS2_SUBCMD_FW_INFO_GET ->
           IF f.length < VersionInfoSize THEN [ns2 |-> c, ret |-> -EINVAL]
           ELSE [ns2 |-> [c EXCEPT !.version = VersionInfo(f),
                                   !.ctlr_type = Byte(f, 3)],
                 ret |-> 0]
      [] OTHER -> [ns2 |-> c, ret |-> 0]

\* A receive that dispatches the frame without triggering the next init step.
ReceiveCommandNoKick(c, u, f) ==
    IF f.length < CmdHeaderSize
    THEN [ns2 |-> c, usb |-> u, ret |-> -EINVAL, calls |-> NoCalls,
          adv |-> FALSE, advret |-> 0]
    ELSE LET d == Dispatch(c, f)
         IN  [ns2 |-> d.ns2, usb |-> u, ret |-> d.ret, calls |-> NoCalls,
              adv |-> FALSE, advret |-> 0]

\* switch2_receive_command.  adv tells whether switch2_init_controller was
\* called, advret what it returned.
ReceiveCommand(c, u, f) ==
    IF f.length < CmdHeaderSize
    THEN [ns2 |-> c, usb |-> u, ret |-> -EINVAL, calls |-> NoCalls,
          adv |-> FALSE, advret |-> 0]
    ELSE LET i == IF c.init_step < NS2_INIT_DONE
                  THEN InitController(c, u)
                  ELSE [ns2 |-> c, usb |-> u, ret |-> 0, calls |-> NoCalls]
             d == Dispatch(i.ns2, f)
         IN  [ns2 |-> d.ns2, usb |-> i.usb, ret |-> d.ret, calls |-> i.calls,
              adv |-> c.init_step < NS2_INIT_DONE, advret |-> i.ret]


\* ------------------------------------------------------------ registry
\* Positions of the registry list whose session has the physical path phys.
Matches(list, h, phys) == {i \in 1..Len(list) : h[list[i]].phys = phys}

\* An acquire that skips the walk of the list while a session can be allocated.
GetControllerNoLookup(list, h, al, n, phys) ==
    LET found == IF n < MaxSessions THEN {} ELSE Matches(list, h, phys)
        first == CHOOSE i \in found : \A j \in found : i <= j
        new   == n + 1
    IN  IF found # {}
        THEN [list |-> list, heap |-> h, alive |-> al, nalloc |-> n,
              ns2 |-> list[first], created |-> FALSE]
        ELSE [list |-> <<new>> \o list,
              heap |-> [h EXCEPT ![new] = [ZeroController EXCEPT !.phys = phys]],
              alive |-> al \cup {new}, nalloc |-> new,
              ns2 |-> new, created |-> TRUE]

\* switch2_get_controller: the first session of the list with this path, else
\* a new zeroed session added at the head.
GetController(list, h, al, n, phys) ==
    LET found == Matches(list, h, phys)
        first == CHOOSE i \in found : \A j \in found : i <= j
        new   == n + 1
    IN  IF found # {}
        THEN [list |-> list, heap |-> h, alive |-> al, nalloc |-> n,
              ns2 |-> list[first], created |-> FALSE]
        ELSE [list |-> <<new>> \o list,
              heap |-> [h EXCEPT ![new] = [ZeroController EXCEPT !.phys = phys]],
              alive |-> al \cup {new}, nalloc |-> new,
              ns2 |-> new, created |-> TRUE]

\* The bound of the model: a new session can be allocated.
CanGet(phys) ==
    Matches(switch2_controllers, heap, phys) # {} \/ nalloc < MaxSessions

\* A release that frees the session as soon as either handle is unbound.
PutLockedEither(c) ==
    LET n == [c EXCEPT !.input = NULL, !.init_step = 0]
    IN  [ns2 |-> n, free |-> ~(n.hdev # NULL /\ n.cfg # NULL)]

\* A release that clears everything the session has read from the controller.
PutLockedWipe(c) ==
    LET n == [ZeroController EXCEPT !.hdev = c.hdev, !.cfg = c.cfg, !.phys = c.phys,
                                    !.player_id = c.player_id]
    IN  [ns2 |-> n, free |-> ~(n.hdev # NULL \/ n.cfg # NULL)]

\* switch2_controller_put, the section under ns2->lock: tear the input device
\* down, reset init_step, and decide whether the session is to be freed.
PutLocked(c) ==
    LET n == [c EXCEPT !.input = NULL, !.init_step = 0]
    IN  [ns2 |-> n, free |-> ~(n.hdev # NULL \/ n.cfg # NULL)]

\* list_del_init(&ns2->entry) under switch2_controllers_lock.
ListDel(list, id) == SelectSeq(list, LAMBDA x : x # id)

\* ida_alloc: the smallest id not in use.
IdaAlloc(inuse) == CHOOSE i \in 0..Cardinality(inuse) :
                       i \notin inuse /\ \A j \in 0..(i - 1) : j \in inuse

\* ------------------------------------------------------------ observation
Obs(op, ns2, created, adv, advret, ret, calls, freed) ==
    [op |-> op, ns2 |-> ns2, created |-> created, adv |-> adv, advret |-> advret,
     ret |-> ret, calls |-> calls, freed |-> freed]

NoObs == Obs("none", 0, FALSE, FALSE, 0, 0, NoCalls, FALSE)

NoAdvance(c, u) == [ns2 |-> c, usb |-> u, ret |-> 0, calls |-> NoCalls]

\* ------------------------------------------------------------ handlers
\* Each handler below runs from its first to its last statement in one step.

\* The rumble part of switch2_probe: the frequencies of the HD rumble unless
\* the session is known to be a GameCube controller, spin_lock_init.
ProbeRumble(c) ==
    IF c.ctlr_type # NS2_CTLR_TYPE_GC
    THEN [c EXCEPT !.rumble.hi_freq = RUMBLE_HI_FREQ, !.rumble.lo_freq = RUMBLE_LO_FREQ,
                   !.rumble_lock = "free"]
    ELSE [c EXCEPT !.rumble_lock = "free"]

\* switch2_probe (HID driver) on the HID interface at path p.
\* INIT_DELAYED_WORK makes the work item one that is not queued; a handler
\* of the item that is running goes on.
HidProbeStep(p) ==
    /\ hid[p].pc = "detached"
    /\ CanGet(p)
    /\ LET g   == GetController(switch2_controllers, heap, alive, nalloc, p)
           id  == g.ns2
           c   == ProbeRumble([g.heap[id] EXCEPT !.hdev = p,
                                                 !.player_id = IdaAlloc(ida)])
           adv == c.cfg # NULL
           u   == IF adv THEN usb[c.cfg] ELSE FreshUsb
           r   == IF adv THEN InitController(c, u) ELSE NoAdvance(c, u)
       IN  /\ switch2_controllers' = g.list
           /\ heap' = [g.heap EXCEPT ![id] = r.ns2]
           /\ alive' = g.alive
           /\ nalloc' = g.nalloc
           /\ ida' = ida \cup {c.player_id}
           /\ usb' = IF adv THEN [usb EXCEPT ![c.cfg] = r.usb] ELSE usb
           /\ hid' = [hid EXCEPT ![p] =
                        [pc |-> IF r.ret = 0 THEN "bound" ELSE "failed",
                         drvdata |-> id]]
           /\ work' = [work EXCEPT ![id] =
                         IF @.pc = "idle" THEN IdleWork ELSE [@ EXCEPT !.pending = FALSE]]
           /\ last' = Obs("probe", id, g.created, adv, r.ret, r.ret, r.calls, FALSE)

\* switch2_usb_probe (USB driver) on the vendor interface at path p.
UsbProbeStep(p) ==
    /\ usb[p].pc = "detached"
    /\ CanGet(p)
    /\ LET g   == GetController(switch2_controllers, heap, alive, nalloc, p)
           id  == g.ns2
           c   == [g.heap[id] EXCEPT !.cfg = p]
           adv == c.hdev # NULL
           u   == ProbedUsb(id)
           r   == IF adv THEN InitController(c, u) ELSE NoAdvance(c, u)
       IN  /\ switch2_controllers' = g.list
           /\ heap' = [g.heap EXCEPT ![id] = r.ns2]
           /\ alive' = g.alive
           /\ nalloc' = g.nalloc
           /\ usb' = [usb EXCEPT ![p] =
                        [r.usb EXCEPT !.pc = IF r.ret = 0 THEN "bound" ELSE "failed"]]
           /\ last' = Obs("usb_probe", id, g.created, adv, r.ret, r.ret, r.calls, FALSE)
           /\ UNCHANGED << hid, ida >>

\* switch2_controller_put on session id whose handle has just been cleared
\* (h is the heap after that): both sections, then kfree.
PutAll(h, id, op) ==
    LET r == PutLocked(h[id])
    IN  /\ heap' = [h EXCEPT ![id] = IF r.free THEN ZeroController ELSE r.ns2]
        /\ switch2_controllers' =
             IF r.free THEN ListDel(switch2_controllers, id) ELSE switch2_controllers
        /\ alive' = IF r.free THEN alive \ {id} ELSE alive
        /\ last' = Obs(op, id, FALSE, FALSE, 0, 0, NoCalls, r.free)

\* switch2_remove (HID driver).
HidRemoveStep(p) ==
    /\ hid[p].pc = "bound"
    /\ LET id == hid[p].drvdata
       IN  /\ work[id].pc = "idle"
           /\ work' = [work EXCEPT ![id].pending = FALSE]
           /\ PutAll([heap EXCEPT ![id].hdev = NULL], id, "remove")
           /\ ida' = ida \ {heap[id].player_id}
           /\ hid' = [hid EXCEPT ![p] = FreshHid]
           /\ UNCHANGED << nalloc, usb >>

\* switch2_usb_disconnect (USB driver).
UsbDisconnectStep(p) ==
    /\ usb[p].pc = "bound"
    /\ LET id == usb[p].parent
       IN  /\ PutAll([heap EXCEPT ![id].cfg = NULL], id, "disconnect")
           /\ usb' = [usb EXCEPT ![p] = FreshUsb]
           /\ UNCHANGED << nalloc, hid, ida >>

\* switch2_usb_message_in_work: one received frame f handed to
\* switch2_receive_command.
MessageInStep(p, f) ==
    /\ usb[p].pc = "bound"
    /\ LET id == usb[p].parent
           r  == ReceiveCommand(heap[id], usb[p], f)
       IN  /\ heap' = [heap EXCEPT ![id] = r.ns2]
           /\ usb' = [usb EXCEPT ![p] = r.usb]
           /\ last' = Obs("receive", id, FALSE, r.adv, r.advret, r.ret, r.calls, FALSE)
           /\ UNCHANGED << switch2_controllers, alive, nalloc, hid, ida >>

\* switch2_bulk_out: bulk-out URB slot completes with status.
BulkOutStep(p, slot, status) ==
    /\ usb[p].pc = "bound"
    /\ usb[p].bulk_out[slot].submitted
    /\ usb' = [usb EXCEPT ![p] = BulkOut(usb[p], slot, status)]
    /\ UNCHANGED << switch2_controllers, heap, alive, nalloc, hid, ida, last >>


\* ------------------------------------------------------------ inputs
\* A type byte outside enum switch2_ctlr_type.
UnknownCtlrType == NS2_CTLR_TYPE_GC + 1
CtlrTypes == {NS2_CTLR_TYPE_JCL, NS2_CTLR_TYPE_JCR, NS2_CTLR_TYPE_PRO, NS2_CTLR_TYPE_GC}

ShortFrame == Frame(4, NS2_CMD_INIT, NS2_SUBCMD_INIT_USB, << >>, 0)
AckFrame(command, subcommand) == Frame(8, command, subcommand, << >>, 0)
ShortFwInfoFrame == Frame(11, NS2_CMD_FW_INFO, NS2_SUBCMD_FW_INFO_GET, <<1, 0, 0>>, 0)
FwInfoFrame(type) ==
    Frame(20, NS2_CMD_FW_INFO, NS2_SUBCMD_FW_INFO_GET,
          <<1, 0, 0, type, 0, 0, 0, 0, 0, 0, 0, 0>>, 0)

\* Frames an arbitrary (possibly misbehaving) device delivers.
Frames ==
    {ShortFrame, AckFrame(NS2_CMD_INIT, NS2_SUBCMD_INIT_USB), ShortFwInfoFrame}
    \cup {FwInfoFrame(t) : t \in CtlrTypes \cup {UnknownCtlrType}}

\* ------------------------------------------------------------ Spec
\* One physical device; its handlers run one after the other, in any order,
\* and the device delivers any frames at any time.
MainPath == "usb-1"

Init ==
    /\ switch2_controllers = << >>
    /\ heap = [i \in Sessions |-> ZeroController]
    /\ alive = {}
    /\ nalloc = 0
    /\ hid = [p \in Paths |-> FreshHid]
    /\ usb = [p \in Paths |-> FreshUsb]
    /\ ida = {}
    /\ wire = [p \in Paths |-> << >>]
    /\ devtype = [p \in Paths |-> NS2_CTLR_TYPE_JCL]
    /\ seen = NoneSeen
    /\ work = NoWork
    /\ last = NoObs

HidProbe(p) == HidProbeStep(p) /\ UNCHANGED << wire, devtype, seen >>
UsbProbe(p) == UsbProbeStep(p) /\ UNCHANGED << wire, devtype, seen, work >>
HidRemove(p) == HidRemoveStep(p) /\ UNCHANGED << wire, devtype, seen >>
UsbDisconnect(p) == UsbDisconnectStep(p) /\ UNCHANGED << wire, devtype, seen, work >>
MessageIn(p, f) == MessageInStep(p, f) /\ UNCHANGED << wire, devtype, seen, work >>
BulkOutComplete(p, slot) == BulkOutStep(p, slot, 0) /\ UNCHANGED << wire, devtype, seen, work >>

Next ==
    \/ HidProbe(MainPath)
    \/ UsbProbe(MainPath)
    \/ HidRemove(MainPath)
    \/ UsbDisconnect(MainPath)
    \/ \E f \in Frames : MessageIn(MainPath, f)
    \/ \E slot \in 1..NS2_OUT_URBS : BulkOutComplete(MainPath, slot)

Spec == Init /\ [][Next]_vars


\* ------------------------------------------------------------ steps, as seen
\* from a pair of states (for the properties below)
Registered(id) == \E i \in 1..Len(switch2_controllers) : switch2_controllers[i] = id
RegisteredNext(id) ==
    \E i \in 1..Len(switch2_controllers') : switch2_controllers'[i] = id

IsHidProbe(p) == hid[p].pc = "detached" /\ hid'[p].pc # "detached"
IsUsbProbe(p) == usb[p].pc = "detached" /\ usb'[p].pc # "detached"
IsHidRemove(p) == hid[p].pc = "bound" /\ hid'[p].pc = "detached"
IsUsbDisconnect(p) == usb[p].pc = "bound" /\ usb'[p].pc = "detached"
IsRelease(id) ==
    \E p \in Paths : \/ IsHidRemove(p) /\ hid[p].drvdata = id
                     \/ IsUsbDisconnect(p) /\ usb[p].parent = id

\* ------------------------------------------------------------ claims (Spec)

\* C2: with both handles bound and the releases run one after the other,
\* releasing one handle leaves the session registered and allocated; releasing
\* the remaining one unlinks and frees it; and an acquire for a path with no
\* registered session returns a newly allocated session whose init_step is
\* NS2_INIT_STARTING.
C2_ReleaseBothThenFresh ==
    [][ /\ \A id \in Sessions :
             IsRelease(id) =>
               IF heap[id].hdev # NULL /\ heap[id].cfg # NULL
               THEN id \in alive' /\ RegisteredNext(id) /\ ~last'.freed
               ELSE id \notin alive' /\ ~RegisteredNext(id) /\ last'.freed
        /\ \A p \in Paths :
             ((IsHidProbe(p) \/ IsUsbProbe(p))
                /\ Matches(switch2_controllers, heap, p) = {}) =>
               /\ last'.created
               /\ last'.ns2 \notin 1..nalloc
               /\ last'.ns2 \in alive' /\ RegisteredNext(last'.ns2)
               /\ heap'[last'.ns2].phys = p
               /\ heap'[last'.ns2].init_step = NS2_INIT_STARTING
      ]_vars

\* C2 witness: a second session has been created for the path after the first
\* one, which had got past NS2_INIT_STARTING with both handles bound, was freed.
C2_Witness ==
    /\ last.op \in {"probe", "usb_probe"} /\ last.created /\ last.ns2 = 2
    /\ 1 \notin alive /\ switch2_controllers = <<2>>
    /\ heap[2].phys = MainPath

\* C4: no advance, from an attach or from an inbound frame, lowers init_step
\* or takes it past NS2_INIT_DONE (only a release resets it).
C4_InitStepMonotonic ==
    /\ [](\A id \in Sessions : heap[id].init_step <= NS2_INIT_DONE)
    /\ [][ \A id \in Sessions :
             ~IsRelease(id) => heap'[id].init_step >= heap[id].init_step ]_vars

\* C4 witness: an advance run from an inbound frame took the session to
\* NS2_INIT_DONE with the data path unbound (the loop fell out of its last pass).
C4_Witness ==
    /\ last.op = "receive" /\ last.adv
    /\ heap[last.ns2].init_step = NS2_INIT_DONE
    /\ heap[last.ns2].hdev = NULL

\* C6: when the submission of a step's command fails, init_step is not moved
\* past that step, and the next advance issues the same command again.
FailedSend(o) == o.adv /\ o.calls # NoCalls /\ o.calls[1].ret # 0
SameCommand(a, b) ==
    a.command = b.command /\ a.subcommand = b.subcommand /\ a.message = b.message
C6_FailedStepRetried ==
    [][ \A id \in Sessions :
          (FailedSend(last) /\ last.ns2 = id /\ last'.ns2 = id /\ last'.adv
             /\ ~IsRelease(id) /\ heap'[id] # heap[id]) =>
            /\ last'.calls # NoCalls
            /\ SameCommand(last'.calls[1], last.calls[1])
      ]_vars

\* C8: in every state between handlers, a session at NS2_INIT_DONE whose data
\* path handle is bound has its input device registered.
C8_DoneBoundHasInput ==
    \A id \in alive :
      (heap[id].init_step = NS2_INIT_DONE /\ heap[id].hdev # NULL) =>
        heap[id].input # NULL


\* ------------------------------------------------------------ two ports
\* Both interfaces of two controllers, on two ports, attach and detach.
NextReg ==
    \E p \in Paths :
        \/ HidProbe(p)
        \/ UsbProbe(p)
        \/ HidRemove(p)
        \/ UsbDisconnect(p)

SpecReg == Init /\ [][NextReg]_vars

\* C1: the registry never holds two sessions with the same physical path, and
\* an acquire for a path that has a registered session returns that session
\* and creates none.
C1_OneSessionPerPath ==
    /\ [](\A i, j \in 1..Len(switch2_controllers) :
            heap[switch2_controllers[i]].phys = heap[switch2_controllers[j]].phys
              => i = j)
    /\ [][ \A p \in Paths :
             ((IsHidProbe(p) \/ IsUsbProbe(p))
                /\ Matches(switch2_controllers, heap, p) # {}) =>
               /\ ~last'.created
               /\ Registered(last'.ns2) /\ heap[last'.ns2].phys = p
               /\ switch2_controllers' = switch2_controllers
               /\ alive' = alive
       ]_vars

\* C1 witness: two ports, each with one registered session that both of its
\* interfaces share, the second interface having been given the existing one.
C1_Witness ==
    /\ Len(switch2_controllers) = 2
    /\ \A p \in Paths :
         /\ hid[p].pc = "bound" /\ usb[p].pc = "bound"
         /\ hid[p].drvdata = usb[p].parent
         /\ heap[hid[p].drvdata].phys = p
    /\ last.op \in {"probe", "usb_probe"} /\ ~last.created


\* ------------------------------------------------------------ single calls
\* switch2_init_controller and switch2_receive_command applied to one session
\* in any of the states a caller can find it in: each handle bound or cleared
\* (switch2_usb_disconnect clears cfg before the release resets init_step, and
\* pending receive work may run then), any init_step, any controller type byte,
\* the output queue empty or full.
TheSession == CHOOSE i \in Sessions : \A j \in Sessions : i <= j
FullSlot == [active |-> TRUE, submitted |-> TRUE]

InitCall ==
    /\ switch2_controllers = << TheSession >>
    /\ alive = {TheSession}
    /\ nalloc = 1
    /\ ida = {}
    /\ wire = [p \in Paths |-> << >>]
    /\ devtype = [p \in Paths |-> NS2_CTLR_TYPE_JCL]
    /\ seen = NoneSeen
    /\ work = NoWork
    /\ last = NoObs
    /\ \E hdev \in {NULL, MainPath}, cfg \in {NULL, MainPath},
          step \in NS2_INIT_STARTING..NS2_INIT_DONE,
          type \in CtlrTypes \cup {UnknownCtlrType},
          input \in {NULL, "input"}, full \in BOOLEAN :
         /\ input # NULL => (hdev # NULL /\ step = NS2_INIT_DONE /\ type \in CtlrTypes)
         /\ heap = [i \in Sessions |->
                      IF i = TheSession
                      THEN [ZeroController EXCEPT !.phys = MainPath, !.hdev = hdev,
                              !.cfg = cfg, !.init_step = step, !.ctlr_type = type,
                              !.input = input]
                      ELSE ZeroController]
         /\ hid = [p \in Paths |->
                     IF p = MainPath /\ hdev # NULL
                     THEN [pc |-> "bound", drvdata |-> TheSession] ELSE FreshHid]
         /\ usb = [p \in Paths |->
                     IF p = MainPath
                     THEN [ProbedUsb(TheSession) EXCEPT
                             !.pc = IF cfg # NULL THEN "bound" ELSE "detached",
                             !.bulk_out = [i \in 1..NS2_OUT_URBS |->
                                             IF full THEN FullSlot ELSE FreshSlot]]
                     ELSE FreshUsb]

\* One call of switch2_init_controller.
CallInitController ==
    /\ LET r == InitController(heap[TheSession], usb[MainPath])
       IN  /\ heap' = [heap EXCEPT ![TheSession] = r.ns2]
           /\ usb' = [usb EXCEPT ![MainPath] = r.usb]
           /\ last' = Obs("advance", TheSession, FALSE, TRUE, r.ret, r.ret, r.calls, FALSE)
    /\ UNCHANGED << switch2_controllers, alive, nalloc, hid, ida, wire, devtype, seen, work >>

\* One call of switch2_receive_command with frame f.
CallReceiveCommand(f) ==
    /\ LET r == ReceiveCommand(heap[TheSession], usb[MainPath], f)
       IN  /\ heap' = [heap EXCEPT ![TheSession] = r.ns2]
           /\ usb' = [usb EXCEPT ![MainPath] = r.usb]
           /\ last' = Obs("receive", TheSession, FALSE, r.adv, r.advret, r.ret, r.calls, FALSE)
    /\ UNCHANGED << switch2_controllers, alive, nalloc, hid, ida, wire, devtype, seen, work >>

NextCall ==
    \/ CallInitController
    \/ \E f \in Frames : CallReceiveCommand(f)

SpecCall == InitCall /\ [][NextCall]_vars

IsCallInitController == last'.op = "advance" /\ CallInitController
IsCallReceiveCommand == last'.op = "receive" /\ \E f \in Frames : CallReceiveCommand(f)

\* C5: an advance on a session whose cfg is unbound and whose init_step is
\* below NS2_INIT_DONE returns -ENOTCONN, sends nothing, and leaves init_step
\* (and the rest of the session) as it was.
C5_UnboundCfgNotConnected ==
    [][ (heap[TheSession].cfg = NULL /\ heap[TheSession].init_step < NS2_INIT_DONE) =>
          /\ IsCallInitController =>
               /\ last'.ret = -ENOTCONN /\ last'.calls = NoCalls
               /\ heap'[TheSession] = heap[TheSession] /\ usb' = usb
          /\ (IsCallReceiveCommand /\ last'.adv) =>
               /\ last'.advret = -ENOTCONN /\ last'.calls = NoCalls
               /\ heap'[TheSession].init_step = heap[TheSession].init_step
               /\ usb' = usb
      ]_vars

\* C5 witness: an advance called part of the way through the sequence with cfg
\* cleared has returned -ENOTCONN.
C5_Witness ==
    /\ last.op = "advance" /\ last.ret = -ENOTCONN
    /\ heap[TheSession].cfg = NULL
    /\ heap[TheSession].init_step = NS2_INIT_READ_USER_PRIMARY_CALIB

\* C7: at NS2_INIT_DONE an advance returns 0 and changes nothing, whether cfg
\* is bound or not, and no inbound frame received at NS2_INIT_DONE makes the
\* driver send a command.
C7_DoneIsNoOp ==
    [][ heap[TheSession].init_step = NS2_INIT_DONE =>
          /\ IsCallInitController =>
               /\ last'.ret = 0 /\ last'.calls = NoCalls
               /\ heap' = heap /\ usb' = usb
          /\ IsCallReceiveCommand =>
               /\ ~last'.adv /\ last'.calls = NoCalls /\ usb' = usb
               /\ heap'[TheSession].init_step = NS2_INIT_DONE
      ]_vars

\* C7 witness: an advance at NS2_INIT_DONE with cfg cleared has returned 0.
C7_Witness ==
    /\ last.op = "advance" /\ last.ret = 0 /\ last.calls = NoCalls
    /\ heap[TheSession].init_step = NS2_INIT_DONE
    /\ heap[TheSession].cfg = NULL


\* ------------------------------------------------------------ a device that
\* answers.  The controller at the port is of one type, answers each command it
\* was sent, in order, with one well-formed frame, after the command's output
\* transfer has completed; both interfaces attach and stay attached.
FlashData(size) == [i \in 1..size |-> i]
FlashFrame(size, address) ==
    Frame(16 + size, NS2_CMD_FLASH, NS2_SUBCMD_FLASH_READ,
          <<size, 126, 0, 0>> \o Le32(address) \o FlashData(size), 0)

CallAddress(call) ==
    call.message[5] + call.message[6] * 256 + call.message[7] * 65536
      + call.message[8] * 16777216

Reply(call, type) ==
    IF call.command = NS2_CMD_FLASH /\ call.subcommand = NS2_SUBCMD_FLASH_READ
    THEN FlashFrame(call.message[1], CallAddress(call))
    ELSE IF call.command = NS2_CMD_FW_INFO /\ call.subcommand = NS2_SUBCMD_FW_INFO_GET
    THEN FwInfoFrame(type)
    ELSE AckFrame(call.command, call.subcommand)

Sent(calls) == SelectSeq(calls, LAMBDA call : call.ret = 0)

InitLive ==
    /\ switch2_controllers = << >>
    /\ heap = [i \in Sessions |-> ZeroController]
    /\ alive = {}
    /\ nalloc = 0
    /\ hid = [p \in Paths |-> FreshHid]
    /\ usb = [p \in Paths |-> FreshUsb]
    /\ ida = {}
    /\ wire = [p \in Paths |-> << >>]
    /\ \E type \in CtlrTypes \cup {UnknownCtlrType} :
         devtype = [p \in Paths |-> IF p = MainPath THEN type ELSE NS2_CTLR_TYPE_JCL]
    /\ seen = NoneSeen
    /\ work = NoWork
    /\ last = NoObs

HidProbeLive(p) ==
    /\ HidProbeStep(p)
    /\ wire' = [wire EXCEPT ![p] = @ \o Sent(last'.calls)]
    /\ UNCHANGED << devtype, seen >>

UsbProbeLive(p) ==
    /\ UsbProbeStep(p)
    /\ wire' = [wire EXCEPT ![p] = @ \o Sent(last'.calls)]
    /\ UNCHANGED << devtype, seen, work >>

DeviceReply(p) ==
    /\ wire[p] # << >>
    /\ \A slot \in 1..NS2_OUT_URBS : ~usb[p].bulk_out[slot].submitted
    /\ MessageInStep(p, Reply(Head(wire[p]), devtype[p]))
    /\ wire' = [wire EXCEPT ![p] = Tail(@) \o Sent(last'.calls)]
    /\ UNCHANGED << devtype, seen, work >>

UrbComplete(p) == \E slot \in 1..NS2_OUT_URBS : BulkOutComplete(p, slot)

NextLive ==
    \/ HidProbeLive(MainPath)
    \/ UsbProbeLive(MainPath)
    \/ DeviceReply(MainPath)
    \/ UrbComplete(MainPath)

\* The probes are run by the driver core once the interfaces are there, URB
\* completions by the host controller, the receive work by the workqueue.
SpecLive ==
    /\ InitLive /\ [][NextLive]_vars
    /\ WF_vars(HidProbeLive(MainPath)) /\ WF_vars(UsbProbeLive(MainPath))
    /\ WF_vars(DeviceReply(MainPath)) /\ WF_vars(UrbComplete(MainPath))

BothBound(p) ==
    /\ hid[p].pc = "bound" /\ usb[p].pc = "bound"
    /\ hid[p].drvdata = usb[p].parent


AtDone(p) == BothBound(p) /\ heap[hid[p].drvdata].init_step = NS2_INIT_DONE

StepApplies(step, type) ==
    CASE step \in {NS2_INIT_READ_FACTORY_SECONDARY_CALIB,
                   NS2_INIT_READ_USER_SECONDARY_CALIB} ->
           type \in {NS2_CTLR_TYPE_PRO, NS2_CTLR_TYPE_GC}
      [] step = NS2_INIT_READ_FACTORY_TRIGGER_CALIB -> type = NS2_CTLR_TYPE_GC
      [] step = NS2_INIT_GRIP_BUTTONS -> type \in {NS2_CTLR_TYPE_JCL, NS2_CTLR_TYPE_JCR}
      [] OTHER -> TRUE

\* C10: in every run of the sequence, the first included, a step is passed
\* over without its command being issued exactly when its condition does not
\* hold for the type of the controller that is attached.
C10_ConditionalStepsFollowDevice ==
    [][ \A p \in Paths : \A id \in Sessions :
          (heap[id].phys = p /\ heap'[id].phys = p
             /\ heap'[id].init_step > heap[id].init_step) =>
            \A step \in (heap[id].init_step + 1)..heap'[id].init_step :
              step < NS2_INIT_DONE =>
                ((step = heap'[id].init_step /\ last'.calls # NoCalls)
                   <=> StepApplies(step, devtype[p]))
      ]_vars


\* ------------------------------------------------------------ interleaving
\* The HID driver and the USB driver bind and unbind their interfaces of the
\* controller at MainPath on different threads.  A step is one critical
\* section: of switch2_controllers_lock (acquire; unlink and free) or of
\* ns2->lock (bind; clear the handle; the first half of the release).  The pc
\* of a side is "detached", "got" (acquire returned), "bound", "cleared" (its
\* handle is NULL, the release not entered), "unlinking" (the release found no
\* handle and dropped ns2->lock), "failed" or "oops".
\* A freed session's memory keeps what it held; a section entered on it either
\* faults or goes through on that memory.

\* switch2_probe up to the return of switch2_get_controller.
HidGet(p) ==
    /\ hid[p].pc = "detached"
    /\ CanGet(p)
    /\ LET g == GetController(switch2_controllers, heap, alive, nalloc, p)
       IN  /\ switch2_controllers' = g.list
           /\ heap' = g.heap
           /\ alive' = g.alive
           /\ nalloc' = g.nalloc
           /\ hid' = [hid EXCEPT ![p] = [pc |-> "got", drvdata |-> g.ns2]]
           /\ last' = Obs("get", g.ns2, g.created, FALSE, 0, 0, NoCalls, FALSE)
    /\ UNCHANGED << usb, ida, wire, devtype, seen, work >>

\* switch2_probe from mutex_lock(&ns2->lock) to its return.
HidBind(p) ==
    /\ hid[p].pc = "got"
    /\ LET id  == hid[p].drvdata
           c   == ProbeRumble([heap[id] EXCEPT !.hdev = p, !.player_id = IdaAlloc(ida)])
           adv == c.cfg # NULL
           u   == IF adv THEN usb[c.cfg] ELSE FreshUsb
           r   == IF adv THEN InitController(c, u) ELSE NoAdvance(c, u)
       IN  /\ heap' = [heap EXCEPT ![id] = r.ns2]
           /\ ida' = ida \cup {c.player_id}
           /\ usb' = IF adv THEN [usb EXCEPT ![c.cfg] = r.usb] ELSE usb
           /\ hid' = [hid EXCEPT ![p].pc = IF r.ret = 0 THEN "bound" ELSE "failed"]
           /\ last' = Obs("probe", id, FALSE, adv, r.ret, r.ret, r.calls, FALSE)
    /\ UNCHANGED << switch2_controllers, alive, nalloc, wire, devtype, seen, work >>

\* switch2_remove up to the call of switch2_controller_put.
HidClear(p) ==
    /\ hid[p].pc = "bound"
    /\ LET id == hid[p].drvdata
       IN  /\ work[id].pc = "idle"
           /\ work' = [work EXCEPT ![id].pending = FALSE]
           /\ heap' = [heap EXCEPT ![id].hdev = NULL]
           /\ ida' = ida \ {heap[id].player_id}
    /\ hid' = [hid EXCEPT ![p].pc = "cleared"]
    /\ UNCHANGED << switch2_controllers, alive, nalloc, usb, last, wire, devtype, seen >>

\* switch2_controller_put, the section under ns2->lock, called from switch2_remove.
HidPut(p) ==
    /\ hid[p].pc = "cleared"
    /\ LET id == hid[p].drvdata
           r  == PutLocked(heap[id])
       IN  /\ heap' = [heap EXCEPT ![id] = r.ns2]
           /\ hid' = IF r.free THEN [hid EXCEPT ![p].pc = "unlinking"]
                      ELSE [hid EXCEPT ![p] = FreshHid]
           /\ last' = Obs("remove", id, FALSE, FALSE, 0, 0, NoCalls, FALSE)
    /\ UNCHANGED << switch2_controllers, alive, nalloc, usb, ida, wire, devtype, seen, work >>

\* switch2_controller_put, list_del_init under switch2_controllers_lock and
\* kfree, called from switch2_remove.
HidUnlink(p) ==
    /\ hid[p].pc = "unlinking"
    /\ LET id == hid[p].drvdata
       IN  /\ switch2_controllers' = ListDel(switch2_controllers, id)
           /\ alive' = alive \ {id}
           /\ last' = Obs("remove", id, FALSE, FALSE, 0, 0, NoCalls, TRUE)
    /\ hid' = [hid EXCEPT ![p] = FreshHid]
    /\ UNCHANGED << heap, nalloc, usb, ida, wire, devtype, seen, work >>


\* switch2_usb_probe up to the return of switch2_get_controller.
UsbGet(p) ==
    /\ usb[p].pc = "detached"
    /\ CanGet(p)
    /\ LET g == GetController(switch2_controllers, heap, alive, nalloc, p)
       IN  /\ switch2_controllers' = g.list
           /\ heap' = g.heap
           /\ alive' = g.alive
           /\ nalloc' = g.nalloc
           /\ usb' = [usb EXCEPT ![p] = [ProbedUsb(g.ns2) EXCEPT !.pc = "got"]]
           /\ last' = Obs("get", g.ns2, g.created, FALSE, 0, 0, NoCalls, FALSE)
    /\ UNCHANGED << hid, ida, wire, devtype, seen, work >>

\* switch2_usb_probe from mutex_lock(&ns2->lock) to its return.
UsbBind(p) ==
    /\ usb[p].pc = "got"
    /\ LET id  == usb[p].parent
           c   == [heap[id] EXCEPT !.cfg = p]
           adv == c.hdev # NULL
           r   == IF adv THEN InitController(c, usb[p]) ELSE NoAdvance(c, usb[p])
       IN  /\ heap' = [heap EXCEPT ![id] = r.ns2]
           /\ usb' = [usb EXCEPT ![p] =
                        [r.usb EXCEPT !.pc = IF r.ret = 0 THEN "bound" ELSE "failed"]]
           /\ last' = Obs("usb_probe", id, FALSE, adv, r.ret, r.ret, r.calls, FALSE)
    /\ UNCHANGED << switch2_controllers, alive, nalloc, hid, ida, wire, devtype, seen, work >>

\* switch2_usb_disconnect up to the call of switch2_controller_put.
UsbClear(p) ==
    /\ usb[p].pc = "bound"
    /\ heap' = [heap EXCEPT ![usb[p].parent].cfg = NULL]
    /\ usb' = [usb EXCEPT ![p] = [FreshUsb EXCEPT !.pc = "cleared", !.parent = usb[p].parent]]
    /\ UNCHANGED << switch2_controllers, alive, nalloc, hid, ida, last, wire, devtype, seen, work >>

\* switch2_controller_put, the section under ns2->lock, called from
\* switch2_usb_disconnect.
UsbPut(p) ==
    /\ usb[p].pc = "cleared"
    /\ LET id == usb[p].parent
           r  == PutLocked(heap[id])
       IN  /\ heap' = [heap EXCEPT ![id] = r.ns2]
           /\ usb' = IF r.free THEN [usb EXCEPT ![p].pc = "unlinking"]
                      ELSE [usb EXCEPT ![p] = FreshUsb]
           /\ last' = Obs("disconnect", id, FALSE, FALSE, 0, 0, NoCalls, FALSE)
    /\ UNCHANGED << switch2_controllers, alive, nalloc, hid, ida, wire, devtype, seen, work >>

\* switch2_controller_put, list_del_init under switch2_controllers_lock and
\* kfree, called from switch2_usb_disconnect.
UsbUnlink(p) ==
    /\ usb[p].pc = "unlinking"
    /\ LET id == usb[p].parent
       IN  /\ switch2_controllers' = ListDel(switch2_controllers, id)
           /\ alive' = alive \ {id}
           /\ last' = Obs("disconnect", id, FALSE, FALSE, 0, 0, NoCalls, TRUE)
    /\ usb' = [usb EXCEPT ![p] = FreshUsb]
    /\ UNCHANGED << heap, nalloc, hid, ida, wire, devtype, seen, work >>

\* A section entered on a freed session faults instead of going through.
Holding(pc) == pc \in {"got", "bound", "cleared", "unlinking"}
HidFault(p) ==
    /\ Holding(hid[p].pc) /\ hid[p].drvdata \notin alive
    /\ hid' = [hid EXCEPT ![p].pc = "oops"]
    /\ UNCHANGED << switch2_controllers, heap, alive, nalloc, usb, ida, last,
                    wire, devtype, seen, work >>
UsbFault(p) ==
    /\ Holding(usb[p].pc) /\ usb[p].parent \notin alive
    /\ usb' = [usb EXCEPT ![p].pc = "oops"]
    /\ UNCHANGED << switch2_controllers, heap, alive, nalloc, hid, ida, last,
                    wire, devtype, seen, work >>

NextRace ==
    \/ HidGet(MainPath)
    \/ HidBind(MainPath)
    \/ HidClear(MainPath)
    \/ HidPut(MainPath)
    \/ HidUnlink(MainPath)
    \/ HidFault(MainPath)
    \/ UsbGet(MainPath)
    \/ UsbBind(MainPath)
    \/ UsbClear(MainPath)
    \/ UsbPut(MainPath)
    \/ UsbUnlink(MainPath)
    \/ UsbFault(MainPath)
    \/ \E f \in {AckFrame(NS2_CMD_INIT, NS2_SUBCMD_INIT_USB)} : MessageIn(MainPath, f)

SpecRace == Init /\ [][NextRace]_vars

\* C3: however a release on one side interleaves with an acquire and bind on
\* the other, a session is neither freed nor unlinked while a side has its
\* handle bound to it or has been given it by the acquire and not bound yet.
C3_NeverFreedWhileHeld ==
    \A p \in Paths :
      /\ hid[p].pc \in {"got", "bound"} =>
           hid[p].drvdata \in alive /\ Registered(hid[p].drvdata)
      /\ usb[p].pc \in {"got", "bound"} =>
           usb[p].parent \in alive /\ Registered(usb[p].parent)


\* ------------------------------------------------------------ flash replies
\* The controller at MainPath answers flash reads with calibration blocks:
\* present, blank (all 0xFF) or, for the user blocks, without the magic.  The
\* replies arrive in any order and any number of times (every run of the init
\* sequence reads the blocks again), and the HID interface detaches and
\* attaches while the USB interface stays.
Blank(n) == [i \in 1..n |-> 255]
FactoryBlock(slot) == [i \in 1..9 |-> 16 * slot + i]
UserBlock(slot) == [i \in 1..9 |-> 64 * slot + 2 * i]
Magic == <<NS2_USER_CALIB_MAGIC % 256, NS2_USER_CALIB_MAGIC \div 256>>
NoMagic == <<NS2_USER_CALIB_MAGIC % 256, 0>>

FlashReply(address, data) ==
    Frame(16 + Len(data), NS2_CMD_FLASH, NS2_SUBCMD_FLASH_READ,
          <<Len(data), 126, 0, 0>> \o Le32(address) \o data, 0)

FactoryAddr(slot) ==
    IF slot = 1 THEN NS2_FLASH_ADDR_FACTORY_PRIMARY_CALIB
    ELSE NS2_FLASH_ADDR_FACTORY_SECONDARY_CALIB
UserAddr(slot) ==
    IF slot = 1 THEN NS2_FLASH_ADDR_USER_PRIMARY_CALIB
    ELSE NS2_FLASH_ADDR_USER_SECONDARY_CALIB

FactoryReply(slot) == FlashReply(FactoryAddr(slot), FactoryBlock(slot))
UserReply(slot) == FlashReply(UserAddr(slot), Magic \o UserBlock(slot))

CalibReplies ==
    {FactoryReply(slot) : slot \in 1..2} \cup {UserReply(slot) : slot \in 1..2}
    \cup {FlashReply(FactoryAddr(1), Blank(9)),
          FlashReply(UserAddr(1), Magic \o Blank(9)),
          FlashReply(UserAddr(1), NoMagic \o UserBlock(2))}

\* What a reply adds to the record of valid calibration replies handled.
ReplyKind(f) ==
    {<<"factory", slot>> : slot \in {k \in 1..2 : f = FactoryReply(k)}}
    \cup {<<"user", slot>> : slot \in {k \in 1..2 : f = UserReply(k)}}

FlashIn(p, f) ==
    /\ MessageInStep(p, f)
    /\ seen' = [seen EXCEPT ![usb[p].parent] = @ \cup ReplyKind(f)]
    /\ UNCHANGED << wire, devtype, work >>

NextFlash ==
    \/ HidProbe(MainPath)
    \/ UsbProbe(MainPath)
    \/ HidRemove(MainPath)
    \/ \E f \in CalibReplies : FlashIn(MainPath, f)
    \/ \E slot \in 1..NS2_OUT_URBS : BulkOutComplete(MainPath, slot)

SpecFlash == Init /\ [][NextFlash]_vars

FactoryCalib(slot) == ParseStickCalibration(ZeroStick, FactoryBlock(slot)).calib
UserCalib(slot) == ParseStickCalibration(ZeroStick, UserBlock(slot)).calib

\* C11: once a session has handled a valid factory reply and a valid user
\* reply for a stick slot, in either order, the slot holds the user values;
\* it holds the factory values only if no valid user reply was handled.
C11_UserSupersedesFactory ==
    \A id \in alive : \A slot \in 1..2 :
      /\ {<<"factory", slot>>, <<"user", slot>>} \subseteq seen[id] =>
           heap[id].stick_calib[slot] = UserCalib(slot)
      /\ heap[id].stick_calib[slot] = FactoryCalib(slot) =>
           <<"user", slot>> \notin seen[id]


\* ------------------------------------------------------------ input reports
NS2_TRIGGER_RANGE == 4095
TriggerFull == 232

\* The quotient a / b of two C ints (b # 0): truncated toward zero.
CDiv(a, b) ==
    LET q == (IF a < 0 THEN -a ELSE a) \div (IF b < 0 THEN -b ELSE b)
    IN  IF (a < 0) # (b < 0) THEN -q ELSE q

Clamp(v, lo, hi) == IF v < lo THEN lo ELSE IF v > hi THEN hi ELSE v

\* The outcomes of the int division a / b.  Division by zero is undefined: the
\* divide instruction traps where the processor raises a divide error, and
\* yields 0 where it does not trap.
IntDivide(a, b) ==
    IF b # 0 THEN {[fault |-> FALSE, value |-> CDiv(a, b)]}
    ELSE {[fault |-> TRUE, value |-> 0], [fault |-> FALSE, value |-> 0]}

\* switch2_report_trigger: the outcomes for the raw byte data and zero point
\* zero; value is what input_report_abs is given when the call completes.
ReportTrigger(zero, data) ==
    {[fault |-> q.fault, value |-> Clamp(q.value, 0, NS2_TRIGGER_RANGE)] :
       q \in IntDivide((NS2_TRIGGER_RANGE + 1) * (data - zero), TriggerFull - zero)}

\* The factory trigger calibration reply with zero points lt and rt.
TriggerReply(lt, rt) == FlashReply(NS2_FLASH_ADDR_FACTORY_TRIGGER_CALIB, <<lt, rt>>)

\* A session that has handled one trigger calibration reply, with any two
\* bytes in it.
InitTrigger ==
    /\ switch2_controllers = << TheSession >>
    /\ alive = {TheSession}
    /\ nalloc = 1
    /\ ida = {}
    /\ wire = [p \in Paths |-> << >>]
    /\ devtype = [p \in Paths |-> NS2_CTLR_TYPE_GC]
    /\ seen = NoneSeen
    /\ work = NoWork
    /\ last = NoObs
    /\ hid = [p \in Paths |-> FreshHid]
    /\ usb = [p \in Paths |-> FreshUsb]
    /\ \E lt \in 0..255, rt \in {0, 255} :
         heap = [i \in Sessions |->
                   IF i = TheSession
                   THEN Dispatch([ZeroController EXCEPT !.phys = MainPath,
                                                        !.init_step = NS2_INIT_DONE],
                                 TriggerReply(lt, rt)).ns2
                   ELSE ZeroController]

\* One call of switch2_report_trigger for the left trigger; a behaviour is one
\* session state and one call.
CallReportTrigger(data) ==
    /\ last = NoObs
    /\ \E r \in ReportTrigger(heap[TheSession].lt_zero, data) :
         last' = [op |-> "trigger", zero |-> heap[TheSession].lt_zero, data |-> data,
                  fault |-> r.fault, value |-> r.value]
    /\ UNCHANGED << switch2_controllers, heap, alive, nalloc, hid, usb, ida, wire,
                    devtype, seen, work >>

NextTrigger == \E data \in 0..255 : CallReportTrigger(data)

SpecTrigger == InitTrigger /\ [][NextTrigger]_vars

\* C12: for every raw trigger byte and every storable zero point, 232 included,
\* switch2_report_trigger completes without a division by zero and emits a
\* value in 0..4095; a zero point of 232 saturates the output to 4095.
C12_TriggerInRange ==
    last.op = "trigger" =>
      /\ ~last.fault
      /\ last.value \in 0..NS2_TRIGGER_RANGE
      /\ last.zero = TriggerFull => last.value = NS2_TRIGGER_RANGE


\* ------------------------------------------------------------ stick axes
NS2_AXIS_MIN == -32768
NS2_AXIS_MAX == 32767
AxisCentre == 2048
AxisScale == 16

\* The largest value of a C int.
IntMax == 1073741824 + 1073741823

\* The int product a * b does not fit an int.
Overflows(a, b) ==
    /\ a # 0 /\ b # 0
    /\ (IF a < 0 THEN -a ELSE a) > IntMax \div (IF b < 0 THEN -b ELSE b)

\* An axis report that passes the computed value on without clamping it.
ReportAxisNoClamp(calib, value, negate) ==
    LET applied == calib.neutral # 0 /\ calib.negative # 0 /\ calib.positive # 0
        centred == value - calib.neutral
        scaled  == centred * (NS2_AXIS_MAX + 1)
        v == IF applied
             THEN IF scaled < 0 THEN CDiv(scaled, calib.negative)
                  ELSE CDiv(scaled, calib.positive)
             ELSE (value - AxisCentre) * AxisScale
    IN  {[overflow |-> FALSE, value |-> IF negate THEN -v ELSE v]}

\* switch2_report_axis with a calibration (never a null pointer: its callers
\* pass the address of a member), the raw sample value and the negate flag.
\* The outcomes: value is what input_report_abs is given.  An int product
\* that overflows is undefined, and any value may come out of it.
ReportAxis(calib, value, negate) ==
    LET applied == calib.neutral # 0 /\ calib.negative # 0 /\ calib.positive # 0
        centred == value - calib.neutral
        over    == applied /\ Overflows(centred, NS2_AXIS_MAX + 1)
        scaled  == IF over THEN 0 ELSE centred * (NS2_AXIS_MAX + 1)
        v == IF applied
             THEN IF scaled < 0 THEN CDiv(scaled, calib.negative)
                  ELSE CDiv(scaled, calib.positive)
             ELSE (value - AxisCentre) * AxisScale
        n == IF negate THEN -v ELSE v
    IN  IF over
        THEN {[overflow |-> TRUE, value |-> w] : w \in {NS2_AXIS_MIN, 0, NS2_AXIS_MAX}}
        ELSE {[overflow |-> FALSE, value |-> Clamp(n, NS2_AXIS_MIN, NS2_AXIS_MAX)]}

\* The 12-bit values tried: both ends, their neighbours and the middle.
AxisSamples == {0, 1, 2, AxisCentre - 1, AxisCentre, AxisCentre + 1, 4094, 4095}

\* A session whose primary x axis holds any calibration of three samples.
InitAxis ==
    /\ switch2_controllers = << TheSession >>
    /\ alive = {TheSession}
    /\ nalloc = 1
    /\ ida = {}
    /\ wire = [p \in Paths |-> << >>]
    /\ devtype = [p \in Paths |-> NS2_CTLR_TYPE_PRO]
    /\ seen = NoneSeen
    /\ work = NoWork
    /\ last = NoObs
    /\ hid = [p \in Paths |-> FreshHid]
    /\ usb = [p \in Paths |-> FreshUsb]
    /\ \E neutral \in AxisSamples, negative \in AxisSamples, positive \in AxisSamples :
         heap = [i \in Sessions |->
                   IF i = TheSession
                   THEN [ZeroController EXCEPT
                           !.phys = MainPath, !.init_step = NS2_INIT_DONE,
                           !.stick_calib[1].x = [neutral |-> neutral,
                                                 negative |-> negative,
                                                 positive |-> positive]]
                   ELSE ZeroController]

\* One call of switch2_report_axis; a behaviour is one session state and one
\* call.
CallReportAxis(value, negate) ==
    /\ last = NoObs
    /\ \E r \in ReportAxis(heap[TheSession].stick_calib[1].x, value, negate) :
         last' = [op |-> "axis", calib |-> heap[TheSession].stick_calib[1].x,
                  raw |-> value, negate |-> negate,
                  overflow |-> r.overflow, value |-> r.value]
    /\ UNCHANGED << switch2_controllers, heap, alive, nalloc, hid, usb, ida, wire,
                    devtype, seen, work >>

NextAxis == \E value \in AxisSamples, negate \in BOOLEAN : CallReportAxis(value, negate)

SpecAxis == InitAxis /\ [][NextAxis]_vars

CalibApplied(calib) == calib.neutral # 0 /\ calib.negative # 0 /\ calib.positive # 0

\* C13: for every 12-bit raw sample, every stored calibration of three 12-bit
\* values (any of them possibly zero) and either negate flag,
\* switch2_report_axis emits a value in -32768..32767 without overflowing an
\* int, and emits 0 when the calibration is applied and the raw sample equals
\* the neutral point.
C13_AxisInRange ==
    last.op = "axis" =>
      /\ ~last.overflow
      /\ last.value \in NS2_AXIS_MIN..NS2_AXIS_MAX
      /\ (CalibApplied(last.calib) /\ last.raw = last.calib.neutral) => last.value = 0

\* C13 witness: a calibrated sample at the top of the range, divided by a
\* positive range of 1 and negated, has been clamped to the minimum.
C13_Witness ==
    /\ last.op = "axis"
    /\ CalibApplied(last.calib) /\ last.negate
    /\ last.raw = 4095 /\ last.calib.neutral = 1 /\ last.calib.positive = 1
    /\ last.value = NS2_AXIS_MIN


\* ------------------------------------------------------------ calibration blocks
\* Two 12-bit values in three bytes, the first in the low 12 bits.
Pack2(a, b) == <<a % 256, (a \div 256) + (b % 16) * 16, b \div 16>>

\* A calibration block made of six 12-bit values in the order x neutral,
\* y neutral, x positive, y positive, x negative, y negative.
Pack(v) == Pack2(v[1], v[2]) \o Pack2(v[3], v[4]) \o Pack2(v[5], v[6])

\* The calibration that holds the six values v.
Unpacked(v) ==
    [x |-> [neutral |-> v[1], positive |-> v[3], negative |-> v[5]],
     y |-> [neutral |-> v[2], positive |-> v[4], negative |-> v[6]]]

CalibSamples == {0, 1, 2748, 4095}
SixSamples == [1..6 -> CalibSamples]

\* Blocks that are not made by Pack here: all 0xFF but one byte.
NearBlank == {[Blank(9) EXCEPT ![k] = b] : k \in 1..9, b \in {0, 254}}

\* A session whose primary stick holds no calibration or the factory one.
InitParse ==
    /\ switch2_controllers = << TheSession >>
    /\ alive = {TheSession}
    /\ nalloc = 1
    /\ ida = {}
    /\ wire = [p \in Paths |-> << >>]
    /\ devtype = [p \in Paths |-> NS2_CTLR_TYPE_PRO]
    /\ seen = NoneSeen
    /\ work = NoWork
    /\ last = NoObs
    /\ hid = [p \in Paths |-> FreshHid]
    /\ usb = [p \in Paths |-> FreshUsb]
    /\ \E prior \in {ZeroStick, FactoryCalib(1)} :
         heap = [i \in Sessions |->
                   IF i = TheSession
                   THEN [ZeroController EXCEPT !.phys = MainPath,
                                               !.stick_calib[1] = prior]
                   ELSE ZeroController]

\* One call of switch2_parse_stick_calibration on the primary stick with the
\* block d, which was packed from the values in vals (none: << >>); a
\* behaviour is one session state and one call.
CallParseStickCalibration(d, vals) ==
    /\ last = NoObs
    /\ LET r == ParseStickCalibration(heap[TheSession].stick_calib[1], d)
       IN  /\ heap' = [heap EXCEPT ![TheSession].stick_calib[1] = r.calib]
           /\ last' = [op |-> "parse", data |-> d, vals |-> vals, ok |-> r.ok,
                       before |-> heap[TheSession].stick_calib[1]]
    /\ UNCHANGED << switch2_controllers, alive, nalloc, hid, usb, ida, wire,
                    devtype, seen, work >>

NextParse ==
    \/ \E v \in SixSamples : CallParseStickCalibration(Pack(v), v)
    \/ \E d \in NearBlank : CallParseStickCalibration(d, << >>)

SpecParse == InitParse /\ [][NextParse]_vars

\* C14: switch2_parse_stick_calibration returns absent, and leaves the target
\* as it was, exactly when the nine bytes are all 0xFF; for every other block
\* it returns present, and the calibration decoded from a block packed from six
\* 12-bit values is those six values.
C14_ParseRoundTrip ==
    last.op = "parse" =>
      /\ ~last.ok <=> (\A i \in 1..9 : last.data[i] = 255)
      /\ ~last.ok => heap[TheSession].stick_calib[1] = last.before
      /\ (last.ok /\ last.vals # << >>) =>
           heap[TheSession].stick_calib[1] = Unpacked(last.vals)

\* C14 witness: a block packed from six values, with different positive and
\* negative ranges, has been decoded over a factory calibration.
C14_Witness ==
    /\ last.op = "parse" /\ last.ok
    /\ last.vals = <<1, 2748, 4095, 1, 0, 2748>>
    /\ last.before = FactoryCalib(1)
    /\ heap[TheSession].stick_calib[1] = Unpacked(last.vals)


\* ------------------------------------------------------------ reply frames
\* Two bytes that are not the magic: one byte wrong, the bytes in the other
\* order, the erased flash.
BadMagics == {NoMagic, <<Magic[2], Magic[1]>>, <<0, Magic[2]>>, <<255, 255>>}

BadMagicReplies ==
    {FlashReply(UserAddr(slot), m \o block) :
       slot \in 1..2, m \in BadMagics,
       block \in {UserBlock(1), FactoryBlock(2), Blank(9)}}

SerialReply == FlashReply(NS2_FLASH_ADDR_SERIAL, FlashData(NS2_FLASH_SIZE_SERIAL))

GoodReplies ==
    {FactoryReply(slot) : slot \in 1..2} \cup {UserReply(slot) : slot \in 1..2}
    \cup {SerialReply, TriggerReply(30, 40)}

\* A reply cut short: the transfer delivered n bytes of it, and the bytes
\* after them are in the buffer all the same.
Cut(f, n) == [f EXCEPT !.length = n]

ShortReplies ==
    {Cut(f, n) : f \in GoodReplies \cup {FwInfoFrame(NS2_CTLR_TYPE_GC)},
                 n \in {CmdHeaderSize - 1, CmdHeaderSize, 15}}
    \cup {Cut(f, f.length - 1) : f \in GoodReplies}

ReplyFrames == GoodReplies \cup BadMagicReplies \cup ShortReplies

\* A session with both interfaces bound, at any init step, that holds no
\* calibration, the factory calibration or the user calibration.
InitReply ==
    /\ switch2_controllers = << TheSession >>
    /\ alive = {TheSession}
    /\ nalloc = 1
    /\ ida = {}
    /\ wire = [p \in Paths |-> << >>]
    /\ devtype = [p \in Paths |-> NS2_CTLR_TYPE_PRO]
    /\ seen = NoneSeen
    /\ work = NoWork
    /\ last = NoObs
    /\ hid = [p \in Paths |->
                IF p = MainPath THEN [pc |-> "bound", drvdata |-> TheSession]
                ELSE FreshHid]
    /\ usb = [p \in Paths |->
                IF p = MainPath
                THEN [ProbedUsb(TheSession) EXCEPT !.pc = "bound"]
                ELSE FreshUsb]
    /\ \E step \in NS2_INIT_STARTING..NS2_INIT_DONE,
          calib \in {<<ZeroStick, ZeroStick>>,
                     <<FactoryCalib(1), FactoryCalib(2)>>,
                     <<UserCalib(1), UserCalib(2)>>} :
         heap = [i \in Sessions |->
                   IF i = TheSession
                   THEN [ZeroController EXCEPT !.phys = MainPath, !.hdev = MainPath,
                           !.cfg = MainPath, !.init_step = step,
                           !.stick_calib = calib]
                   ELSE ZeroController]

\* One call of switch2_receive_command with the frame f; a behaviour is one
\* session state and one call.
CallReply(f) ==
    /\ last = NoObs
    /\ LET r == ReceiveCommand(heap[TheSession], usb[MainPath], f)
       IN  /\ heap' = [heap EXCEPT ![TheSession] = r.ns2]
           /\ usb' = [usb EXCEPT ![MainPath] = r.usb]
           /\ last' = [op |-> "reply", frame |-> f, before |-> heap[TheSession],
                       ret |-> r.ret]
    /\ UNCHANGED << switch2_controllers, alive, nalloc, hid, ida, wire, devtype, seen, work >>

NextReply == \E f \in ReplyFrames : CallReply(f)

SpecReply == InitReply /\ [][NextReply]_vars

\* C15: an 11-byte user calibration reply whose first two bytes are not the
\* magic 0xA1B2 (little-endian) leaves both stick slots holding exactly the
\* calibration they held before, whatever the other nine bytes are.
C15_BadMagicKeepsSlot ==
    (last.op = "reply" /\ last.frame \in BadMagicReplies) =>
      heap[TheSession].stick_calib = last.before.stick_calib

\* C15 witness: a user primary reply with a wrong magic and a present block
\* has been handled by a session that held the factory calibration.
C15_Witness ==
    /\ last.op = "reply"
    /\ last.frame = FlashReply(UserAddr(1), NoMagic \o UserBlock(1))
    /\ last.before.stick_calib[1] = FactoryCalib(1)
    /\ heap[TheSession].stick_calib[1] = FactoryCalib(1)


\* The frames the claim C16 is about: shorter than the header, or a flash-read
\* reply shorter than 16 bytes or than 16 bytes plus the size it declares.
IsFlashRead(f) == f.command = NS2_CMD_FLASH /\ f.subcommand = NS2_SUBCMD_FLASH_READ
Malformed(f) ==
    \/ f.length < CmdHeaderSize
    \/ IsFlashRead(f) /\ (f.length < 16 \/ f.length < 16 + f.message[1])

\* The fields of a session that replies fill in.
ReplyData(c) ==
    [serial |-> c.serial, stick_calib |-> c.stick_calib, lt_zero |-> c.lt_zero,
     rt_zero |-> c.rt_zero, version |-> c.version, ctlr_type |-> c.ctlr_type]

\* C16: switch2_receive_command returns -EINVAL for a frame shorter than 8
\* bytes, for a flash-read reply shorter than 16 bytes and for a flash-read
\* reply shorter than 16 bytes plus its declared size, and then leaves the
\* serial, the calibrations, the trigger zeros, the version and the controller
\* type as they were.
C16_MalformedRejected ==
    (last.op = "reply" /\ Malformed(last.frame)) =>
      /\ last.ret = -EINVAL
      /\ ReplyData(heap[TheSession]) = ReplyData(last.before)

\* C16 witness: a factory primary calibration reply one byte shorter than its
\* declared size asks for has been rejected by a session without calibration.
C16_Witness ==
    /\ last.op = "reply"
    /\ last.frame = Cut(FactoryReply(1), FactoryReply(1).length - 1)
    /\ last.ret = -EINVAL
    /\ heap[TheSession].stick_calib = <<ZeroStick, ZeroStick>>


\* ------------------------------------------------------------ switch2_event
HID_INPUT_REPORT == 0
OtherReportType == HID_INPUT_REPORT + 2
MinReportSize == 15
NS2_REPORT_UNIFIED == 5
NS2_REPORT_JCL == 7
NS2_REPORT_JCR == 8
NS2_REPORT_PRO == 9
NS2_REPORT_GC == 10
UnknownReportId == NS2_REPORT_GC + 1
NS2_BTNL_DOWN == 1
NS2_BTNL_RIGHT == 2
NS2_BTNL_LEFT == 4
NS2_BTNL_UP == 8

\* !!(b & mask) for a mask of one bit.
HasBit(b, mask) == (b \div mask) % 2

\* A report: its type and id, the size the HID core delivers, and its bytes
\* from raw_data[0] on.
Report(type, id, size, data) == [type |-> type, id |-> id, size |-> size, data |-> data]
Raw(r, k) == r.data[k + 1]

Ev(code, value) == [code |-> code, value |-> value]

\* Pieces of a handler run one after the other: each is a set of outcomes, a
\* fault ends the run.
Done(events) == {[fault |-> FALSE, events |-> events]}
Then(A, B) ==
    {[fault |-> a.fault \/ b.fault,
      events |-> IF a.fault THEN a.events ELSE a.events \o b.events] :
       a \in A, b \in B}

Hat(b) ==
    Done(<<Ev("ABS_HAT0X", HasBit(b, NS2_BTNL_RIGHT) - HasBit(b, NS2_BTNL_LEFT)),
           Ev("ABS_HAT0Y", HasBit(b, NS2_BTNL_DOWN) - HasBit(b, NS2_BTNL_UP))>>)

\* switch2_report_buttons: the keys of one mapping table, reported from the
\* bytes at raw_data[3] on.
Buttons(table) == Done(<<Ev("KEYS", table)>>)

Axis(calib, code, value, negate) ==
    {[fault |-> FALSE, events |-> <<Ev(code, q.value)>>] :
       q \in ReportAxis(calib, value, negate)}

\* switch2_report_stick on the three bytes at raw_data[k].
Stick(calib, x, y, r, k) ==
    Then(Axis(calib.x, x, Raw(r, k) + (Raw(r, k + 1) % 16) * 256, FALSE),
         Axis(calib.y, y, (Raw(r, k + 1) \div 16) + Raw(r, k + 2) * 16, TRUE))

Trigger(zero, code, data) ==
    {[fault |-> q.fault, events |-> IF q.fault THEN << >> ELSE <<Ev(code, q.value)>>] :
       q \in ReportTrigger(zero, data)}

Returns(ret, read, A) ==
    {[ret |-> ret, read |-> read, fault |-> a.fault, events |-> a.events] : a \in A}
Synced(read, A) == Returns(0, read, Then(A, Done(<<Ev("SYN_REPORT", 0)>>)))

\* An event handler that takes a report of an id it does not know as an empty
\* report.
EventUnknownSynced(c, r) ==
    IF r.type # HID_INPUT_REPORT THEN Returns(0, FALSE, Done(<< >>))
    ELSE IF r.size < MinReportSize THEN Returns(-EINVAL, FALSE, Done(<< >>))
    ELSE IF c.input = NULL THEN Returns(0, FALSE, Done(<< >>))
    ELSE Synced(FALSE, Done(<< >>))

\* switch2_event on the session c: the outcomes, with the events handed to the
\* input device and whether a byte of the report was read.
Event(c, r) ==
    IF r.type # HID_INPUT_REPORT THEN Returns(0, FALSE, Done(<< >>))
    ELSE IF r.size < MinReportSize THEN Returns(-EINVAL, FALSE, Done(<< >>))
    ELSE IF c.input = NULL THEN Returns(0, FALSE, Done(<< >>))
    ELSE CASE r.id = NS2_REPORT_UNIFIED -> Synced(FALSE, Done(<< >>))
           [] r.id = NS2_REPORT_JCL ->
                Synced(TRUE, Then(Hat(Raw(r, 3)),
                       Then(Stick(c.stick_calib[1], "ABS_X", "ABS_Y", r, 6),
                            Buttons("left_joycon"))))
           [] r.id = NS2_REPORT_JCR ->
                Synced(TRUE, Then(Stick(c.stick_calib[1], "ABS_RX", "ABS_RY", r, 6),
                            Buttons("right_joycon")))
           [] r.id = NS2_REPORT_GC ->
                Synced(TRUE, Then(Hat(Raw(r, 4)),
                       Then(Buttons("gccon"),
                       Then(Stick(c.stick_calib[1], "ABS_X", "ABS_Y", r, 6),
                       Then(Stick(c.stick_calib[2], "ABS_RX", "ABS_RY", r, 9),
                       Then(Trigger(c.lt_zero, "ABS_Z", Raw(r, 13)),
                            Trigger(c.rt_zero, "ABS_RZ", Raw(r, 14))))))))
           [] r.id = NS2_REPORT_PRO ->
                Synced(TRUE, Then(Hat(Raw(r, 4)),
                       Then(Buttons("procon"),
                       Then(Stick(c.stick_calib[1], "ABS_X", "ABS_Y", r, 6),
                            Stick(c.stick_calib[2], "ABS_RX", "ABS_RY", r, 9)))))
           [] OTHER -> Returns(-EINVAL, FALSE, Done(<< >>))

RecognizedIds ==
    {NS2_REPORT_UNIFIED, NS2_REPORT_JCL, NS2_REPORT_JCR, NS2_REPORT_PRO, NS2_REPORT_GC}

\* The reports delivered: of every recognized id and of two others, shorter
\* than the minimum, of the minimum size and of the full size.
ReportBytes ==
    {[k \in 1..MinReportSize |-> 0], [k \in 1..MinReportSize |-> (17 * k) % 256]}
Reports ==
    {Report(type, id, size, data) :
       type \in {HID_INPUT_REPORT, OtherReportType},
       id \in RecognizedIds \cup {0, UnknownReportId},
       size \in {0, MinReportSize - 1, MinReportSize, 64},
       data \in ReportBytes}

\* A session whose HID interface is bound: with or without the input device
\* (registered only at NS2_INIT_DONE, for a known controller type), with or
\* without calibration.
InitEvent ==
    /\ switch2_controllers = << TheSession >>
    /\ alive = {TheSession}
    /\ nalloc = 1
    /\ ida = {}
    /\ wire = [p \in Paths |-> << >>]
    /\ devtype = [p \in Paths |-> NS2_CTLR_TYPE_GC]
    /\ seen = NoneSeen
    /\ work = NoWork
    /\ last = NoObs
    /\ hid = [p \in Paths |->
                IF p = MainPath THEN [pc |-> "bound", drvdata |-> TheSession]
                ELSE FreshHid]
    /\ usb = [p \in Paths |-> FreshUsb]
    /\ \E step \in {NS2_INIT_STARTING, NS2_INIT_GET_FIRMWARE_INFO, NS2_INIT_DONE},
          type \in {0, NS2_CTLR_TYPE_JCL, NS2_CTLR_TYPE_GC},
          input \in {NULL, "input"},
          calib \in {<<ZeroStick, ZeroStick>>, <<FactoryCalib(1), UserCalib(2)>>},
          zero \in {0, TriggerFull} :
         /\ input # NULL => (step = NS2_INIT_DONE /\ type \in CtlrTypes)
         /\ heap = [i \in Sessions |->
                      IF i = TheSession
                      THEN [ZeroController EXCEPT !.phys = MainPath, !.hdev = MainPath,
                              !.init_step = step, !.ctlr_type = type, !.input = input,
                              !.stick_calib = calib, !.lt_zero = zero, !.rt_zero = zero]
                      ELSE ZeroController]

\* One report handled by switch2_event.
EventStep(p, r) ==
    /\ hid[p].pc = "bound"
    /\ \E o \in Event(heap[hid[p].drvdata], r) :
         last' = [op |-> "event", ns2 |-> hid[p].drvdata, report |-> r,
                  input |-> heap[hid[p].drvdata].input,
                  ret |-> o.ret, read |-> o.read, fault |-> o.fault,
                  events |-> o.events]
    /\ UNCHANGED << switch2_controllers, heap, alive, nalloc, hid, usb, ida, wire,
                    devtype, seen, work >>

NextEvent == \E r \in Reports : EventStep(MainPath, r)

SpecEvent == InitEvent /\ [][NextEvent]_vars

IsInputReport == last.op = "event" /\ last.report.type = HID_INPUT_REPORT
Rejected == last.ret = -EINVAL /\ last.events = << >>

\* C17 as stated: in every session state, switch2_event rejects with an error
\* every input report shorter than 15 bytes before it reads a byte of it, and
\* every input report of 15 bytes or more whose id is not a recognized one;
\* a rejected report emits no event.
C17_ShortOrUnknownRejected ==
    IsInputReport =>
      /\ last.report.size < MinReportSize => (Rejected /\ ~last.read)
      /\ (last.report.size >= MinReportSize /\ last.report.id \notin RecognizedIds) =>
           Rejected

\* C17 amended: the short report is rejected in every session state; the
\* report of 15 bytes or more with an unrecognized id is rejected when the
\* session has an input device, and is dropped with return value 0 (as any
\* report is) when it has none; no event is emitted in either case.
C17_UnknownRejectedWithInput ==
    IsInputReport =>
      /\ last.report.size < MinReportSize => (Rejected /\ ~last.read)
      /\ (last.report.size >= MinReportSize /\ last.report.id \notin RecognizedIds) =>
           /\ last.events = << >>
           /\ last.ret = IF last.input = NULL THEN 0 ELSE -EINVAL
      /\ (last.report.size >= MinReportSize /\ last.input = NULL) =>
           (last.ret = 0 /\ last.events = << >>)

\* C17 witness: a full-size input report with an unrecognized id has been
\* rejected by a session that has an input device.
C17_Witness ==
    /\ IsInputReport
    /\ last.report.size >= MinReportSize /\ last.report.id = UnknownReportId
    /\ last.input # NULL
    /\ Rejected


\* ------------------------------------------------------------ detach
\* A session after the replies of a whole init sequence: serial, calibrations,
\* trigger zeros and firmware info of a Pro Controller.
Filled(c) ==
    LET replies == <<SerialReply, FactoryReply(1), FactoryReply(2), TriggerReply(30, 40),
                     UserReply(2), FwInfoFrame(NS2_CTLR_TYPE_PRO)>>
        F[k \in 0..Len(replies)] ==
          IF k = 0 THEN c ELSE Dispatch(F[k - 1], replies[k]).ns2
    IN  F[Len(replies)]

\* One controller with both interfaces bound: at any init step, with what it
\* has read so far (nothing or everything), with its input device if it is at
\* NS2_INIT_DONE, its output queue empty or full.
InitDetach ==
    /\ switch2_controllers = << TheSession >>
    /\ alive = {TheSession}
    /\ nalloc = 1
    /\ wire = [p \in Paths |-> << >>]
    /\ devtype = [p \in Paths |-> NS2_CTLR_TYPE_PRO]
    /\ seen = NoneSeen
    /\ work = NoWork
    /\ last = NoObs
    /\ ida = {0}
    /\ hid = [p \in Paths |->
                IF p = MainPath THEN [pc |-> "bound", drvdata |-> TheSession]
                ELSE FreshHid]
    /\ \E step \in NS2_INIT_STARTING..NS2_INIT_DONE, filled \in BOOLEAN,
          input \in {NULL, "input"}, full \in BOOLEAN :
         /\ input # NULL => (step = NS2_INIT_DONE /\ filled)
         /\ LET c == [ZeroController EXCEPT !.phys = MainPath, !.hdev = MainPath,
                        !.cfg = MainPath, !.init_step = step]
            IN  heap = [i \in Sessions |->
                          IF i = TheSession
                          THEN [(IF filled THEN Filled(c) ELSE c) EXCEPT !.input = input]
                          ELSE ZeroController]
         /\ usb = [p \in Paths |->
                     IF p = MainPath
                     THEN [ProbedUsb(TheSession) EXCEPT
                             !.pc = "bound",
                             !.bulk_out = [i \in 1..NS2_OUT_URBS |->
                                             IF full THEN FullSlot ELSE FreshSlot]]
                     ELSE FreshUsb]

NextDetach ==
    \/ HidRemove(MainPath)
    \/ HidProbe(MainPath)
    \/ \E slot \in 1..NS2_OUT_URBS : BulkOutComplete(MainPath, slot)

SpecDetach == InitDetach /\ [][NextDetach]_vars

\* C18: switch2_remove on a session whose cfg stays bound unregisters the
\* input device and resets init_step to NS2_INIT_STARTING, keeps the session
\* registered and allocated, and leaves both stick calibrations, the trigger
\* zeros, the serial, the version and the controller type as they were.
C18_DetachKeepsData ==
    [][ \A p \in Paths :
          (IsHidRemove(p) /\ heap[hid[p].drvdata].cfg # NULL) =>
            LET id == hid[p].drvdata
            IN  /\ heap'[id].input = NULL
                /\ heap'[id].init_step = NS2_INIT_STARTING
                /\ id \in alive' /\ RegisteredNext(id)
                /\ heap'[id].hdev = NULL /\ heap'[id].cfg = heap[id].cfg
                /\ ReplyData(heap'[id]) = ReplyData(heap[id])
      ]_vars

\* C18 witness: the HID interface of a session with calibration has been
\* removed while the USB interface stays bound.
C18_Witness ==
    /\ last.op = "remove" /\ ~last.freed
    /\ heap[last.ns2].cfg # NULL /\ heap[last.ns2].hdev = NULL
    /\ heap[last.ns2].input = NULL /\ heap[last.ns2].init_step = NS2_INIT_STARTING
    /\ ReplyData(heap[last.ns2]) = ReplyData(Filled(ZeroController))


\* ------------------------------------------------------------ rumble
\* The two views of the union rumble.  struct switch2_hd_rumble packs
\* hi_freq, hi_amp, lo_freq, lo_amp into bits 0..39, ten bits each; struct
\* switch2_erm_rumble has error in bits 0..15 and amplitude in bits 16..31.
SdError(r) == r.hi_freq + (r.hi_amp % 64) * 1024
SdAmplitude(r) == (r.hi_amp \div 64) + r.lo_freq * 16 + (r.lo_amp % 4) * 16384
WithSdError(r, e) ==
    [r EXCEPT !.hi_freq = e % 1024, !.hi_amp = (@ \div 64) * 64 + e \div 1024]
WithSdAmplitude(r, a) ==
    [r EXCEPT !.hi_amp = (@ % 64) + (a % 16) * 64,
              !.lo_freq = (a \div 16) % 1024,
              !.lo_amp = (@ \div 4) * 4 + a \div 16384]

\* switch2_encode_rumble: the five bytes written.
EncodeRumble(r) ==
    << r.hi_freq % 256,
       (r.hi_freq \div 256) + (r.hi_amp % 64) * 4,
       (r.hi_amp \div 64) + (r.lo_freq % 16) * 16,
       (r.lo_freq \div 16) + (r.lo_amp % 4) * 64,
       r.lo_amp \div 4 >>

\* msecs_to_jiffies(4), with a jiffy of one millisecond.
Interval == 4

\* The times jiffies_to_msecs(get_jiffies_64()) returns: zero and not zero.
Times == {0, 1}

\* The ticks followed for one work item.
MaxTicks == 4

\* The magnitudes set_intensity is called with.
Magnitudes == {0, 1, U16_MAX}

\* switch2_play_effect, the section under rumble_lock before the work is queued.
\* hi_amp and lo_amp are 10-bit fields: a store keeps the low ten bits.
PlayEffectLocked(c, strong, weak) ==
    IF c.ctlr_type = NS2_CTLR_TYPE_GC
    THEN [c EXCEPT !.rumble =
            WithSdAmplitude(@, IF strong > weak \div 2 THEN strong ELSE weak \div 2)]
    ELSE [c EXCEPT !.rumble.hi_amp = ((weak * RUMBLE_MAX) \div 65536) % 1024,
                   !.rumble.lo_amp = ((strong * RUMBLE_MAX) \div 65536) % 1024]

Packet(kind, seq, body, stamp) == [kind |-> kind, seq |-> seq, body |-> body, stamp |-> stamp]

\* The report of the Pro Controller: buffer[0] is 2, and a second sub-packet
\* with its own header byte at offset 0x11 follows the first.
ProPacket(seq, body, seq2, body2, stamp) ==
    [kind |-> 2, seq |-> seq, body |-> body, stamp |-> stamp,
     seq2 |-> seq2, body2 |-> body2]

\* A tick that emits ON also when the error has reached the amplitude.
RumbleReportOnAtEqual(c) ==
    LET amplitude == SdAmplitude(c.rumble)
        error == SdError(c.rumble)
        seq == 80 + c.rumble_seq
    IN  IF c.ctlr_type = NS2_CTLR_TYPE_GC
        THEN IF amplitude = 0
             THEN [buffer |-> Packet(3, seq, <<GC_RUMBLE_STOP>>, c.last_rumble_work),
                   rumble |-> WithSdError(c.rumble, 0), active |-> FALSE]
             ELSE IF error <= amplitude
             THEN [buffer |-> Packet(3, seq, <<GC_RUMBLE_ON>>, c.last_rumble_work),
                   rumble |-> WithSdError(c.rumble, (error + U16_MAX - amplitude) % 65536),
                   active |-> TRUE]
             ELSE [buffer |-> Packet(3, seq, <<GC_RUMBLE_OFF>>, c.last_rumble_work),
                   rumble |-> WithSdError(c.rumble, error - amplitude),
                   active |-> TRUE]
        ELSE [buffer |-> IF c.ctlr_type = NS2_CTLR_TYPE_PRO
                         THEN ProPacket(seq, EncodeRumble(c.rumble),
                                        80 + c.rumble_seq, EncodeRumble(c.rumble),
                                        c.last_rumble_work)
                         ELSE Packet(1, seq, EncodeRumble(c.rumble), c.last_rumble_work),
              rumble |-> c.rumble,
              active |-> c.rumble.hi_amp # 0 \/ c.rumble.lo_amp # 0]

\* The report of one tick and what the tick does to rumble: for the GameCube
\* controller the on/off modulation with its accumulated error.
RumbleReport(c) ==
    LET amplitude == SdAmplitude(c.rumble)
        error == SdError(c.rumble)
        seq == 80 + c.rumble_seq
    IN  IF c.ctlr_type = NS2_CTLR_TYPE_GC
        THEN IF amplitude = 0
             THEN [buffer |-> Packet(3, seq, <<GC_RUMBLE_STOP>>, c.last_rumble_work),
                   rumble |-> WithSdError(c.rumble, 0), active |-> FALSE]
             ELSE IF error < amplitude
             THEN [buffer |-> Packet(3, seq, <<GC_RUMBLE_ON>>, c.last_rumble_work),
                   rumble |-> WithSdError(c.rumble, (error + U16_MAX - amplitude) % 65536),
                   active |-> TRUE]
             ELSE [buffer |-> Packet(3, seq, <<GC_RUMBLE_OFF>>, c.last_rumble_work),
                   rumble |-> WithSdError(c.rumble, error - amplitude),
                   active |-> TRUE]
        ELSE [buffer |-> IF c.ctlr_type = NS2_CTLR_TYPE_PRO
                         THEN ProPacket(seq, EncodeRumble(c.rumble),
                                        80 + c.rumble_seq, EncodeRumble(c.rumble),
                                        c.last_rumble_work)
                         ELSE Packet(1, seq, EncodeRumble(c.rumble), c.last_rumble_work),
              rumble |-> c.rumble,
              active |-> c.rumble.hi_amp # 0 \/ c.rumble.lo_amp # 0]

\* a - b in unsigned long.  The difference is `value' when a >= b; below that
\* it wraps, and the result is ULONG_MAX + 1 + value, with value negative.
ULongSub(a, b) == [wrapped |-> a < b, value |-> a - b]
\* No delay: the tick did not call schedule_delayed_work.
NoDelay == [wrapped |-> FALSE, value |-> 0]
\* The delay a tick that finds the encoder active at current_ms passes to
\* schedule_delayed_work, last_rumble_work being the value it has just stored.
RumbleDelay(last_rumble_work, current_ms) ==
    ULongSub(last_rumble_work + Interval, current_ms)

\* A tick that leaves last_rumble_work alone when the encoder is not active.
RumbleWorkLockedKeepStamp(c, current_ms) ==
    LET r == RumbleReport(c)
    IN  [ns2 |-> [c EXCEPT !.rumble = r.rumble,
                           !.rumble_seq = (@ + 1) % 16,
                           !.last_rumble_work =
                              IF r.active
                              THEN IF @ = 0 THEN current_ms ELSE @ + Interval
                              ELSE @],
         buffer |-> r.buffer, schedule |-> r.active,
         delay |-> IF r.active
                   THEN RumbleDelay(IF c.last_rumble_work = 0 THEN current_ms
                                    ELSE c.last_rumble_work + Interval, current_ms)
                   ELSE NoDelay]

\* switch2_rumble_work, the section under rumble_lock: the session after it,
\* the report built, and whether the work was queued again.
RumbleWorkLocked(c, current_ms) ==
    LET r == RumbleReport(c)
    IN  [ns2 |-> [c EXCEPT !.rumble = r.rumble,
                           !.rumble_seq = (@ + 1) % 16,
                           !.last_rumble_work =
                              IF r.active
                              THEN IF @ = 0 THEN current_ms ELSE @ + Interval
                              ELSE 0],
         buffer |-> r.buffer, schedule |-> r.active,
         delay |-> IF r.active
                   THEN RumbleDelay(IF c.last_rumble_work = 0 THEN current_ms
                                    ELSE c.last_rumble_work + Interval, current_ms)
                   ELSE NoDelay]

\* switch2_play_effect for an FF_RUMBLE effect on the input device of session
\* id: it runs under rumble_lock from its first to its last statement.
PlayEffect(id, strong, weak) ==
    /\ id \in alive /\ heap[id].input # NULL
    /\ heap[id].rumble_lock = "free"
    /\ heap' = [heap EXCEPT ![id] = PlayEffectLocked(@, strong, weak)]
    /\ work' = [work EXCEPT ![id].pending = TRUE]
    /\ last' = [op |-> "play", ns2 |-> id, strong |-> strong, weak |-> weak]
    /\ UNCHANGED << switch2_controllers, alive, nalloc, hid, usb, ida, wire,
                    devtype, seen >>

\* The workqueue starts switch2_rumble_work: it reads the time and allocates
\* the buffer, or returns when it cannot.  When the timer of the work item
\* expires is not modelled: a queued tick starts at any time.  The item is in
\* the session's memory: a tick of a freed session is a fault.
TickStart(id) ==
    /\ work[id].pending /\ work[id].pc = "idle"
    /\ work[id].ticks < MaxTicks
    /\ \E t \in Times, buffer \in BOOLEAN :
         /\ t >= work[id].current_ms
         /\ work' = [work EXCEPT ![id] =
                       IF id \notin alive
                       THEN [@ EXCEPT !.pending = FALSE, !.pc = "fault",
                                      !.ticks = @ + 1]
                       ELSE IF buffer
                       THEN [@ EXCEPT !.pending = FALSE, !.pc = "start",
                                      !.current_ms = t, !.ticks = @ + 1]
                       ELSE [@ EXCEPT !.pending = FALSE, !.ticks = @ + 1]]
    /\ UNCHANGED << switch2_controllers, heap, alive, nalloc, hid, usb, ida, wire,
                    devtype, seen, last >>

\* switch2_rumble_work from spin_lock_irqsave to spin_unlock_irqrestore.
TickLocked(id) ==
    /\ work[id].pc = "start"
    /\ id \in alive => heap[id].rumble_lock = "free"
    /\ IF id \notin alive
       THEN /\ work' = [work EXCEPT ![id].pc = "fault"]
            /\ UNCHANGED heap
       ELSE LET r == RumbleWorkLocked(heap[id], work[id].current_ms)
            IN  /\ heap' = [heap EXCEPT ![id] = r.ns2]
                /\ work' = [work EXCEPT ![id].pc = "send", ![id].buffer = r.buffer,
                                        ![id].pending = @ \/ r.schedule]
    /\ UNCHANGED << switch2_controllers, alive, nalloc, hid, usb, ida, wire,
                    devtype, seen, last >>

\* switch2_rumble_work after the unlock: the report goes out on hdev, or the
\* work is cancelled when hdev is gone.
TickSendStep(id) ==
    /\ work[id].pc = "send"
    /\ IF id \notin alive
       THEN /\ work' = [work EXCEPT ![id].pc = "fault"]
            /\ UNCHANGED last
       ELSE IF heap[id].hdev = NULL
       THEN /\ work' = [work EXCEPT ![id].pc = "idle", ![id].pending = FALSE]
            /\ last' = [op |-> "nodev", ns2 |-> id]
       ELSE /\ work' = [work EXCEPT ![id].pc = "idle"]
            /\ last' = [op |-> "packet", ns2 |-> id, buffer |-> work[id].buffer]
    /\ UNCHANGED << switch2_controllers, heap, alive, nalloc, hid, usb, ida, wire,
                    devtype >>

TickSend(id) == TickSendStep(id) /\ UNCHANGED seen

\* switch2_remove, statement by statement: spin_lock_irqsave,
RemoveLock(p) ==
    /\ hid[p].pc = "bound"
    /\ heap[hid[p].drvdata].rumble_lock = "free"
    /\ heap' = [heap EXCEPT ![hid[p].drvdata].rumble_lock = "remove"]
    /\ hid' = [hid EXCEPT ![p].pc = "rm_locked"]
    /\ UNCHANGED << switch2_controllers, alive, nalloc, usb, ida, wire, devtype,
                    seen, work, last >>

\* cancel_delayed_work_sync, which takes the item off the queue and returns
\* when its handler is not running, and spin_unlock_irqrestore,
RemoveCancelSync(p) ==
    /\ hid[p].pc = "rm_locked"
    /\ work[hid[p].drvdata].pc = "idle"
    /\ work' = [work EXCEPT ![hid[p].drvdata].pending = FALSE]
    /\ heap' = [heap EXCEPT ![hid[p].drvdata].rumble_lock = "free"]
    /\ hid' = [hid EXCEPT ![p].pc = "rm_cancelled"]
    /\ UNCHANGED << switch2_controllers, alive, nalloc, usb, ida, wire, devtype,
                    seen, last >>

\* hdev = NULL under ns2->lock,
RemoveClear(p) ==
    /\ hid[p].pc = "rm_cancelled"
    /\ heap' = [heap EXCEPT ![hid[p].drvdata].hdev = NULL]
    /\ hid' = [hid EXCEPT ![p].pc = "rm_cleared"]
    /\ UNCHANGED << switch2_controllers, alive, nalloc, usb, ida, wire, devtype,
                    seen, work, last >>

\* ida_free and switch2_controller_put.
RemovePut(p) ==
    /\ hid[p].pc = "rm_cleared"
    /\ PutAll(heap, hid[p].drvdata, "remove")
    /\ ida' = ida \ {heap[hid[p].drvdata].player_id}
    /\ hid' = [hid EXCEPT ![p] = FreshHid]
    /\ UNCHANGED << nalloc, usb, wire, devtype, seen, work >>

\* One controller at NS2_INIT_DONE with its input device registered: a Pro
\* Controller or a GameCube controller, whose rumble storage is as kzalloc
\* left it or as a switch2_probe that ran before the type was known left it.
InitRumble ==
    /\ switch2_controllers = << TheSession >>
    /\ alive = {TheSession}
    /\ nalloc = 1
    /\ ida = {0}
    /\ wire = [p \in Paths |-> << >>]
    /\ seen = NoneSeen
    /\ work = NoWork
    /\ last = NoObs
    /\ hid = [p \in Paths |->
                IF p = MainPath THEN [pc |-> "bound", drvdata |-> TheSession]
                ELSE FreshHid]
    /\ usb = [p \in Paths |->
                IF p = MainPath
                THEN [ProbedUsb(TheSession) EXCEPT !.pc = "bound"]
                ELSE FreshUsb]
    /\ \E type \in {NS2_CTLR_TYPE_PRO, NS2_CTLR_TYPE_GC}, probed \in BOOLEAN :
         /\ type = NS2_CTLR_TYPE_PRO => probed
         /\ devtype = [p \in Paths |-> type]
         /\ LET c == [ZeroController EXCEPT !.phys = MainPath, !.hdev = MainPath,
                        !.cfg = MainPath]
            IN  heap = [i \in Sessions |->
                          IF i = TheSession
                          THEN [(IF probed THEN ProbeRumble(c) ELSE c) EXCEPT
                                  !.init_step = NS2_INIT_DONE, !.ctlr_type = type,
                                  !.input = "input"]
                          ELSE ZeroController]

NextRumble ==
    \/ \E strong \in Magnitudes, weak \in Magnitudes : PlayEffect(TheSession, strong, weak)
    \/ TickStart(TheSession)
    \/ TickLocked(TheSession)
    \/ TickSend(TheSession)
    \/ RemoveLock(MainPath)
    \/ RemoveCancelSync(MainPath)
    \/ RemoveClear(MainPath)
    \/ RemovePut(MainPath)
    \/ UsbDisconnect(MainPath)

SpecRumble == InitRumble /\ [][NextRumble]_vars


\* The amplitude a tick computes from is zero.
ZeroAmp(c) ==
    IF c.ctlr_type = NS2_CTLR_TYPE_GC THEN SdAmplitude(c.rumble) = 0
    ELSE c.rumble.hi_amp = 0 /\ c.rumble.lo_amp = 0

\* The encoder of session id is idle and silent: zero amplitude, no emission
\* timestamp, no tick queued or running.
Quiet(id) ==
    /\ id \in alive
    /\ ZeroAmp(heap[id]) /\ heap[id].last_rumble_work = 0
    /\ ~work[id].pending /\ work[id].pc = "idle"

IsTickLocked(id) == work[id].pc = "start" /\ work'[id].pc = "send"
IsPlayEffect(id) ==
    /\ last'.op = "play" /\ last'.ns2 = id
    /\ ~work[id].pending /\ work'[id].pending /\ work'[id].pc = work[id].pc
IsPlayNonzero(id) == IsPlayEffect(id) /\ (last'.strong # 0 \/ last'.weak # 0)

\* C19 as stated: after set_intensity(0, 0) on an active encoder the next tick
\* leaves the encoder idle (last_rumble_work 0, no tick queued), and from then
\* on the encoder stays silent until set_intensity is called with a nonzero
\* magnitude.
C19_SilentUntilNonzero ==
    [][ \A id \in alive :
          /\ (IsTickLocked(id) /\ ZeroAmp(heap[id])) =>
               (heap'[id].last_rumble_work = 0 /\ ~work'[id].pending)
          /\ (Quiet(id) /\ ~IsPlayNonzero(id)) => (Quiet(id)' \/ id \notin alive')
      ]_vars

\* C19 amended: a tick that finds a zero amplitude sets last_rumble_work to 0
\* and does not queue the work again (a tick is queued after it only if
\* set_intensity queued one while it ran); and an idle, silent encoder stays so
\* until set_intensity is called again, with any magnitude: every call, a call
\* with (0, 0) too, queues a tick.
C19_SilentUntilCalled ==
    [][ \A id \in alive :
          /\ (IsTickLocked(id) /\ ZeroAmp(heap[id])) =>
               /\ heap'[id].last_rumble_work = 0
               /\ work'[id].pending = work[id].pending
          /\ (Quiet(id) /\ ~IsPlayEffect(id)) => (Quiet(id)' \/ id \notin alive')
          /\ (Quiet(id) /\ IsPlayEffect(id)) => work'[id].pending
      ]_vars

\* C19 witness: the stop report of a tick has gone out, the tick had found the
\* encoder active (its emission timestamp was set) with a zero amplitude, and
\* the encoder is idle and silent.
C19_Witness ==
    /\ last.op = "packet"
    /\ last.buffer.stamp # 0
    /\ Quiet(last.ns2)

\* C20: once switch2_remove has cancelled the rumble work and waited for it,
\* no tick of that session is queued or running, and so no tick runs on a
\* session that has been freed, whatever switch2_play_effect does meanwhile.
C20_NoTickAfterCancel ==
    /\ \A p \in Paths :
         hid[p].pc \in {"rm_cancelled", "rm_cleared"} =>
           (~work[hid[p].drvdata].pending /\ work[hid[p].drvdata].pc = "idle")
    /\ \A id \in Sessions :
         id \notin alive => (~work[id].pending /\ work[id].pc = "idle")


\* ------------------------------------------------------------ one advance
\* The condition under which switch2_init_controller runs a step, on the
\* ctlr_type the session holds when the advance is called.
StepRuns(step, type) ==
    CASE step \in {NS2_INIT_READ_FACTORY_SECONDARY_CALIB,
                   NS2_INIT_READ_USER_SECONDARY_CALIB} ->
           ~switch2_ctlr_is_joycon(type)
      [] step = NS2_INIT_READ_FACTORY_TRIGGER_CALIB -> type = NS2_CTLR_TYPE_GC
      [] step = NS2_INIT_GRIP_BUTTONS -> switch2_ctlr_is_joycon(type)
      [] OTHER -> TRUE

\* The command and subcommand bytes each step of switch2_init_controller
\* sends; NS2_INIT_DONE sends none.
StepCommand(step) ==
    CASE step \in {NS2_INIT_READ_SERIAL, NS2_INIT_READ_FACTORY_PRIMARY_CALIB,
                   NS2_INIT_READ_FACTORY_SECONDARY_CALIB,
                   NS2_INIT_READ_FACTORY_TRIGGER_CALIB,
                   NS2_INIT_READ_USER_PRIMARY_CALIB,
                   NS2_INIT_READ_USER_SECONDARY_CALIB} ->
           << NS2_CMD_FLASH, NS2_SUBCMD_FLASH_READ >>
      [] step = NS2_INIT_GET_FIRMWARE_INFO -> << NS2_CMD_FW_INFO, NS2_SUBCMD_FW_INFO_GET >>
      [] step = NS2_INIT_SET_FEATURE_MASK ->
           << NS2_CMD_FEATSEL, NS2_SUBCMD_FEATSEL_SET_MASK >>
      [] step = NS2_INIT_ENABLE_FEATURES ->
           << NS2_CMD_FEATSEL, NS2_SUBCMD_FEATSEL_ENABLE >>
      [] step = NS2_INIT_ENABLE_RUMBLE -> << NS2_CMD_NFC, 1 >>
      [] step = NS2_INIT_GRIP_BUTTONS -> << NS2_CMD_GRIP, NS2_SUBCMD_GRIP_ENABLE_BUTTONS >>
      [] step = NS2_INIT_SET_PLAYER_LEDS -> << NS2_CMD_LED, NS2_SUBCMD_LED_PATTERN >>
      [] step = NS2_INIT_INPUT -> << NS2_CMD_INIT, NS2_SUBCMD_INIT_USB >>
      [] OTHER -> << >>

\* The first step after `step' that runs for a controller of this type.
NextRunStep(step, type) ==
    CHOOSE s \in (step + 1)..NS2_INIT_DONE :
      /\ StepRuns(s, type)
      /\ \A t \in (step + 1)..(s - 1) : ~StepRuns(t, type)

\* A step of the model in which switch2_init_controller was entered: called
\* directly, or by switch2_receive_command.
IsAdvance == IsCallInitController \/ (IsCallReceiveCommand /\ last'.adv)

\* C21 (as stated): every advance called with cfg bound and init_step below
\* NS2_INIT_DONE makes exactly one send call, with the command of the next
\* step whose condition holds, and leaves init_step at that step.
C21_OneCommandPerAdvance ==
    [][ (/\ heap[TheSession].cfg # NULL
         /\ heap[TheSession].init_step < NS2_INIT_DONE
         /\ IsAdvance) =>
          LET s == NextRunStep(heap[TheSession].init_step, heap[TheSession].ctlr_type)
          IN  /\ Len(last'.calls) = 1
              /\ << last'.calls[1].command, last'.calls[1].subcommand >> = StepCommand(s)
              /\ heap'[TheSession].init_step = s
      ]_vars

\* C21 (amended): every advance called with cfg bound and init_step below
\* NS2_INIT_DONE leaves init_step at the next step whose condition holds, a
\* step after the one it found; when that step is below NS2_INIT_DONE it makes
\* exactly one send call, with that step's command, and when that step is
\* NS2_INIT_DONE (the advance was called at NS2_INIT_INPUT) it makes none.
C21_OneStepPerAdvance ==
    [][ (/\ heap[TheSession].cfg # NULL
         /\ heap[TheSession].init_step < NS2_INIT_DONE
         /\ IsAdvance) =>
          LET s == NextRunStep(heap[TheSession].init_step, heap[TheSession].ctlr_type)
          IN  /\ heap'[TheSession].init_step = s
              /\ s > heap[TheSession].init_step
              /\ IF s = NS2_INIT_DONE
                 THEN last'.calls = NoCalls
                 ELSE /\ Len(last'.calls) = 1
                      /\ << last'.calls[1].command, last'.calls[1].subcommand >>
                           = StepCommand(s)
      ]_vars

\* C21 witness: an advance on a Pro Controller has passed over the trigger
\* calibration step and sent the read of the user primary calibration.
C21_Witness ==
    /\ last.op = "advance" /\ Len(last.calls) = 1
    /\ heap[TheSession].ctlr_type = NS2_CTLR_TYPE_PRO
    /\ heap[TheSession].init_step = NS2_INIT_READ_USER_PRIMARY_CALIB
    /\ last.calls[1].command = NS2_CMD_FLASH
    /\ CallAddress(last.calls[1]) = NS2_FLASH_ADDR_USER_PRIMARY_CALIB


\* ------------------------------------------------------------ outstanding
\* The answering device of SpecLive, with either interface released and bound
\* again at any time.  A command is outstanding from its send until the frame
\* that answers it has been handled; wire holds the outstanding commands.
\* switch2_usb_disconnect kills the transfers, so what was outstanding then is
\* never answered to this driver and is dropped from wire.
MaxWire == 3

HidProbeAgain(p) == Len(wire[p]) < MaxWire /\ HidProbeLive(p)

UsbProbeAgain(p) == Len(wire[p]) < MaxWire /\ UsbProbeLive(p)

UsbDisconnectLive(p) ==
    /\ UsbDisconnectStep(p)
    /\ wire' = [wire EXCEPT ![p] = << >>]
    /\ UNCHANGED << devtype, seen, work >>

NextReattach ==
    \/ HidProbeAgain(MainPath)
    \/ UsbProbeAgain(MainPath)
    \/ DeviceReply(MainPath)
    \/ UrbComplete(MainPath)
    \/ HidRemove(MainPath)
    \/ UsbDisconnectLive(MainPath)

SpecReattach == InitLive /\ [][NextReattach]_vars

\* C22: with a device that answers each command with one frame and sends
\* nothing else, at most one command is sent and not yet answered at any time.
C22_OneOutstanding == \A p \in Paths : Len(wire[p]) <= 1


\* ------------------------------------------------------------ reception
\* The inbound side of the command path, one step per critical section: the
\* completion callback switch2_bulk_in (its section under bulk_in_lock, then
\* its schedule_work), the work item switch2_usb_message_in_work (the read of
\* message_in, the call of switch2_receive_command, the clearing of the active
\* flag), and switch2_usb_disconnect (the release of the transfers, then the
\* unbinding).  Completion callbacks of one device run one after the other;
\* an instance of the work item never runs beside another.
ECONNRESET == 104
ENOENT == 2
ESHUTDOWN == 108
\* A status other than those switch2_bulk_in names.
UnknownUrbStatus == -(ESHUTDOWN + 1)
UrbStatuses == {0, -ENOENT, UnknownUrbStatus}

\* The number of frames the device sends.
MaxFrames == 3

\* What the device sends: acknowledgements.
InFrame == AckFrame(NS2_CMD_INIT, NS2_SUBCMD_INIT_USB)

\* switch2_bulk_in from its entry to spin_unlock_irqrestore, for the URB of
\* slot i given back with status, its buffer then holding frame number k.
BulkIn(u, i, status, k) ==
    LET back == [u EXCEPT !.bulk_in[i].submitted = FALSE,
                          !.bulk_in[i].anchored = FALSE,
                          !.bulk_in[i].frame = IF status = 0 THEN k ELSE @]
    IN  IF status \in {-ECONNRESET, -ENOENT, -ESHUTDOWN}
        THEN back
        ELSE [back EXCEPT
                !.message_in = i,
                !.bulk_in = [j \in 1..NS2_IN_URBS |->
                               IF j = i \/ back.bulk_in[j].active \/ UsbSubmitUrb # 0
                               THEN back.bulk_in[j]
                               ELSE [back.bulk_in[j] EXCEPT !.active = TRUE,
                                                            !.submitted = TRUE,
                                                            !.anchored = TRUE]],
                !.irq = (status = 0)]

\* The host controller gives back the URB of slot i.
BulkInLocked(p, i, status) ==
    /\ usb[p].pc \in {"bound", "freeing"}
    /\ ~usb[p].irq
    /\ usb[p].bulk_in[i].submitted
    /\ Len(usb[p].completed) < MaxFrames
    /\ LET k == Len(usb[p].completed) + 1
       IN  usb' = [usb EXCEPT ![p] =
                     [BulkIn(usb[p], i, status, k) EXCEPT
                        !.completed = IF status = 0 THEN Append(@, k) ELSE @,
                        !.failed = @ \/ status # 0]]
    /\ UNCHANGED << switch2_controllers, heap, alive, nalloc, hid, ida, wire,
                    devtype, seen, work, last >>

\* switch2_bulk_in, `if (schedule) schedule_work(&ns2_usb->message_in_work)'.
BulkInSchedule(p) ==
    /\ usb[p].irq
    /\ usb' = [usb EXCEPT ![p].irq = FALSE, ![p].message_in_work.pending = TRUE]
    /\ UNCHANGED << switch2_controllers, heap, alive, nalloc, hid, ida, wire,
                    devtype, seen, work, last >>

\* switch2_usb_message_in_work, its first section under bulk_in_lock.
WorkStart(p) ==
    /\ usb[p].message_in_work.pending
    /\ usb[p].message_in_work.pc = "idle"
    /\ usb' = [usb EXCEPT ![p].message_in_work =
                 [pending |-> FALSE, pc |-> "got", urb |-> usb[p].message_in]]
    /\ UNCHANGED << switch2_controllers, heap, alive, nalloc, hid, ida, wire,
                    devtype, seen, work, last >>

\* The work item reads memory that was released: the transfer buffer after
\* switch2_usb_disconnect released it, or the session after its kfree.
WorkOnFreed(p) == usb[p].freed \/ usb[p].parent \notin alive

\* switch2_usb_message_in_work, the call of switch2_receive_command on the
\* buffer of the slot it took.  On released memory the call faults, or goes
\* through on what the memory still holds.
WorkReceive(p) ==
    /\ usb[p].message_in_work.pc = "got"
    /\ LET id  == usb[p].parent
           w   == usb[p].message_in_work
           got == Append(usb[p].received, usb[p].bulk_in[w.urb].frame)
       IN  \/ /\ id \in alive
              /\ LET r == ReceiveCommand(heap[id], usb[p], InFrame)
                 IN  /\ heap' = [heap EXCEPT ![id] = r.ns2]
                     /\ usb' = [usb EXCEPT ![p] =
                                  [r.usb EXCEPT !.message_in_work.pc = "received",
                                                !.received = got]]
                     /\ last' = Obs("receive", id, FALSE, r.adv, r.advret, r.ret,
                                    r.calls, FALSE)
           \/ /\ id \notin alive
              /\ usb' = [usb EXCEPT ![p].message_in_work.pc = "received",
                                    ![p].received = got]
              /\ last' = Obs("receive", id, FALSE, FALSE, 0, 0, NoCalls, FALSE)
              /\ UNCHANGED heap
           \/ /\ WorkOnFreed(p)
              /\ usb' = [usb EXCEPT ![p].message_in_work.pc = "fault"]
              /\ last' = Obs("fault", id, FALSE, FALSE, 0, 0, NoCalls, FALSE)
              /\ UNCHANGED heap
    /\ UNCHANGED << switch2_controllers, alive, nalloc, hid, ida, wire, devtype,
                    seen, work >>

\* switch2_usb_message_in_work, its second section under bulk_in_lock.
WorkRelease(p) ==
    /\ usb[p].message_in_work.pc = "received"
    /\ usb' = [usb EXCEPT
                 ![p].bulk_in[usb[p].message_in_work.urb].active = FALSE,
                 ![p].message_in_work.pc = "idle"]
    /\ UNCHANGED << switch2_controllers, heap, alive, nalloc, hid, ida, wire,
                    devtype, seen, work, last >>

\* switch2_usb_disconnect up to mutex_lock(&ns2->lock): the URBs on
\* bulk_out_anchor are killed (the inbound URBs switch2_bulk_in submitted are
\* on that anchor too), nothing is on bulk_in_anchor, and the buffers and URBs
\* of every slot are released.
DisconnectFree(p) ==
    /\ usb[p].pc = "bound"
    /\ usb' = [usb EXCEPT ![p] =
                 [@ EXCEPT
                    !.pc = "freeing", !.freed = TRUE,
                    !.bulk_out = [i \in 1..NS2_OUT_URBS |->
                                    [@[i] EXCEPT !.submitted = FALSE]],
                    !.bulk_in = [i \in 1..NS2_IN_URBS |->
                                   IF @[i].anchored
                                   THEN [@[i] EXCEPT !.submitted = FALSE,
                                                     !.anchored = FALSE]
                                   ELSE @[i]]]]
    /\ last' = Obs("free", usb[p].parent, FALSE, FALSE, 0, 0, NoCalls, FALSE)
    /\ UNCHANGED << switch2_controllers, heap, alive, nalloc, hid, ida, wire,
                    devtype, seen, work >>

\* switch2_usb_disconnect from mutex_lock(&ns2->lock) to its return.  The
\* struct switch2_usb, and the work item in it, are left as they are.
DisconnectClear(p) ==
    /\ usb[p].pc = "freeing"
    /\ LET id == usb[p].parent
       IN  PutAll([heap EXCEPT ![id].cfg = NULL], id, "disconnect")
    /\ usb' = [usb EXCEPT ![p].pc = "detached"]
    /\ UNCHANGED << nalloc, hid, ida, wire, devtype, seen, work >>

\* switch2_probe on a session whose command path has released its buffers:
\* the send it makes through that handle may fault.
HidProbeFreed(p) ==
    /\ hid[p].pc = "detached"
    /\ \E id \in alive :
         /\ heap[id].phys = p /\ heap[id].cfg # NULL
         /\ usb[heap[id].cfg].freed
         /\ heap[id].init_step < NS2_INIT_DONE
         /\ hid' = [hid EXCEPT ![p] = [pc |-> "oops", drvdata |-> id]]
         /\ last' = Obs("fault", id, FALSE, FALSE, 0, 0, NoCalls, FALSE)
    /\ UNCHANGED << switch2_controllers, heap, alive, nalloc, usb, ida, wire,
                    devtype, seen, work >>

\* The command path is bound, with its first inbound URB submitted; the data
\* path is bound and the sequence at NS2_INIT_DONE, or the data path was never
\* bound and the sequence has not started.
InitBulkIn ==
    /\ switch2_controllers = << TheSession >>
    /\ alive = {TheSession}
    /\ nalloc = 1
    /\ wire = [p \in Paths |-> << >>]
    /\ devtype = [p \in Paths |-> NS2_CTLR_TYPE_PRO]
    /\ seen = NoneSeen
    /\ work = NoWork
    /\ last = NoObs
    /\ usb = [p \in Paths |->
                IF p = MainPath
                THEN [ProbedUsb(TheSession) EXCEPT !.pc = "bound"]
                ELSE FreshUsb]
    /\ \E attached \in BOOLEAN :
         /\ heap = [i \in Sessions |->
                      IF i # TheSession THEN ZeroController
                      ELSE IF attached
                      THEN [ProbeRumble([ZeroController EXCEPT
                                           !.ctlr_type = NS2_CTLR_TYPE_PRO])
                              EXCEPT !.phys = MainPath, !.hdev = MainPath,
                                     !.cfg = MainPath, !.input = "input",
                                     !.init_step = NS2_INIT_DONE]
                      ELSE [ZeroController EXCEPT !.phys = MainPath,
                                                  !.cfg = MainPath]]
         /\ hid = [p \in Paths |->
                     IF p = MainPath /\ attached
                     THEN [pc |-> "bound", drvdata |-> TheSession] ELSE FreshHid]
         /\ ida = IF attached THEN {0} ELSE {}

NextBulkIn ==
    \/ \E i \in 1..NS2_IN_URBS, status \in UrbStatuses : BulkInLocked(MainPath, i, status)
    \/ BulkInSchedule(MainPath)
    \/ WorkStart(MainPath)
    \/ WorkReceive(MainPath)
    \/ WorkRelease(MainPath)
    \/ DisconnectFree(MainPath)
    \/ DisconnectClear(MainPath)
    \/ HidProbe(MainPath)
    \/ HidProbeFreed(MainPath)

SpecBulkIn == InitBulkIn /\ [][NextBulkIn]_vars

\* The sequence r is the beginning of the sequence c.
IsPrefix(r, c) == Len(r) <= Len(c) /\ \A k \in 1..Len(r) : r[k] = c[k]

\* Every transfer so far completed with status 0 and nothing was released.
AllSuccessful(p) == usb[p].pc = "bound" /\ ~usb[p].failed

\* C23: the frames handed to switch2_receive_command so far are the first of
\* the frames whose transfers completed successfully, each once and in
\* completion order, whatever the timing of completions and work item.
C23_EachFrameOnceInOrder ==
    \A p \in Paths : AllSuccessful(p) => IsPrefix(usb[p].received, usb[p].completed)


\* Some inbound URB of the handle is with the host controller.
InFlight(p) == \E i \in 1..NS2_IN_URBS : usb[p].bulk_in[i].submitted

\* A completed transfer is still to be processed: its completion callback has
\* not yet queued the work item, or the work item is queued or running.
AwaitingWork(p) ==
    \/ usb[p].irq
    \/ usb[p].message_in_work.pending
    \/ usb[p].message_in_work.pc # "idle"

\* C24: while the command path is attached and every transfer completes
\* successfully, at least one inbound transfer is in flight or a completed
\* one is still awaiting processing.
C24_ReceptionNeverStalls ==
    \A p \in Paths : AllSuccessful(p) => (InFlight(p) \/ AwaitingWork(p))

\* A step in which the work item calls switch2_receive_command.
IsWorkReceive(p) ==
    /\ usb[p].message_in_work.pc = "got"
    /\ usb'[p].message_in_work.pc # "got"

\* C26: once the transfer buffers of a command-path handle have been
\* released, no command is submitted through the handle by an attach of the
\* data path, and the work item hands no frame of it to
\* switch2_receive_command.
C26_NoUseAfterRelease ==
    [][ \A p \in Paths :
          usb[p].freed =>
            /\ ~(IsHidProbe(p) /\ last'.op = "probe" /\ last'.calls # NoCalls)
            /\ ~IsWorkReceive(p)
      ]_vars


\* C25: switch2_remove never ends up waiting for ever.  Whenever it holds
\* rumble_lock and is in cancel_delayed_work_sync, either the wait is over
\* (no tick is running) or the running tick can take its next step, so that
\* the wait comes to an end.
C25_RemoveNeverStuck ==
    \A p \in Paths :
      hid[p].pc = "rm_locked" =>
        \/ ENABLED RemoveCancelSync(p)
        \/ ENABLED (TickLocked(hid[p].drvdata) \/ TickSend(hid[p].drvdata))


\* ------------------------------------------------------------ calibration
\* switch2_parse_stick_calibration assigns the six fields of a calibration one
\* after the other, each in two statements (`=' of the low bits, then `|=' of
\* the high bits), under ns2->lock.  switch2_event reads the calibration
\* without taking ns2->lock.
ParseAssignments == 12

\* The k-th assignment of switch2_parse_stick_calibration on the bytes d.
ParseAssign(calib, d, k) ==
    CASE k = 1  -> [calib EXCEPT !.x.neutral = d[1]]
      [] k = 2  -> [calib EXCEPT !.x.neutral = @ + (d[2] % 16) * 256]
      [] k = 3  -> [calib EXCEPT !.y.neutral = d[2] \div 16]
      [] k = 4  -> [calib EXCEPT !.y.neutral = @ + d[3] * 16]
      [] k = 5  -> [calib EXCEPT !.x.positive = d[4]]
      [] k = 6  -> [calib EXCEPT !.x.positive = @ + (d[5] % 16) * 256]
      [] k = 7  -> [calib EXCEPT !.y.positive = d[5] \div 16]
      [] k = 8  -> [calib EXCEPT !.y.positive = @ + d[6] * 16]
      [] k = 9  -> [calib EXCEPT !.x.negative = d[7]]
      [] k = 10 -> [calib EXCEPT !.x.negative = @ + (d[8] % 16) * 256]
      [] k = 11 -> [calib EXCEPT !.y.negative = d[8] \div 16]
      [] k = 12 -> [calib EXCEPT !.y.negative = @ + d[9] * 16]

\* The calibration after the first n assignments.
RECURSIVE ParsePartial(_, _, _)
ParsePartial(calib, d, n) ==
    IF n = 0 THEN calib ELSE ParseAssign(ParsePartial(calib, d, n - 1), d, n)

\* The stick calibration replies that reach the parse: right size, magic
\* present where there is one, block not blank.
TornReplies == {FactoryReply(1), UserReply(1), UserReply(2)}

ReplyAddress(f) ==
    Byte(f, 4) + Byte(f, 5) * 256 + Byte(f, 6) * 65536 + Byte(f, 7) * 16777216

\* The slot of stick_calib a reply is parsed into and the nine bytes parsed.
ReplySlot(f) ==
    IF ReplyAddress(f) \in {NS2_FLASH_ADDR_FACTORY_PRIMARY_CALIB,
                            NS2_FLASH_ADDR_USER_PRIMARY_CALIB}
    THEN 1 ELSE 2
ReplyBlock(f) ==
    IF ReplyAddress(f) \in {NS2_FLASH_ADDR_USER_PRIMARY_CALIB,
                            NS2_FLASH_ADDR_USER_SECONDARY_CALIB}
    THEN [i \in 1..9 |-> Byte(f, 9 + i)]
    ELSE [i \in 1..9 |-> Byte(f, 7 + i)]

\* switch2_usb_message_in_work has called switch2_receive_command with the
\* reply f: ns2->lock is taken, the frame has passed the checks and the parse
\* has compared the block with the blank one.  The assignments it is about to
\* make are those that give the calibration the dispatch gives.
ParseBegin(p, f) ==
    /\ usb[p].pc = "bound"
    /\ usb[p].parse = NoParse
    /\ LET id == usb[p].parent
           c  == heap[id]
       IN  /\ c.init_step = NS2_INIT_DONE
           /\ Dispatch(c, f).ret = 0
           /\ Dispatch(c, f).ns2.stick_calib[ReplySlot(f)] =
                ParsePartial(c.stick_calib[ReplySlot(f)], ReplyBlock(f),
                             ParseAssignments)
    /\ usb' = [usb EXCEPT ![p].parse =
                 [slot |-> ReplySlot(f), n |-> 0, data |-> ReplyBlock(f)]]
    /\ UNCHANGED << switch2_controllers, heap, alive, nalloc, hid, ida, wire,
                    devtype, seen, work, last >>

\* One assignment of the parse.
ParseWrite(p) ==
    /\ usb[p].parse.slot # 0
    /\ usb[p].parse.n < ParseAssignments
    /\ LET w == usb[p].parse
       IN  /\ heap' = [heap EXCEPT ![usb[p].parent].stick_calib[w.slot] =
                         ParseAssign(@, w.data, w.n + 1)]
           /\ usb' = [usb EXCEPT ![p].parse.n = w.n + 1]
    /\ UNCHANGED << switch2_controllers, alive, nalloc, hid, ida, wire, devtype,
                    seen, work, last >>

\* The parse, switch2_handle_flash_read and switch2_receive_command return.
ParseEnd(p) ==
    /\ usb[p].parse.slot # 0
    /\ usb[p].parse.n = ParseAssignments
    /\ usb' = [usb EXCEPT ![p].parse = NoParse]
    /\ last' = Obs("receive", usb[p].parent, FALSE, FALSE, 0, 0, NoCalls, FALSE)
    /\ UNCHANGED << switch2_controllers, heap, alive, nalloc, hid, ida, wire,
                    devtype, seen, work >>

\* The input reports of a Pro Controller.
TornReports ==
    {Report(HID_INPUT_REPORT, NS2_REPORT_PRO, 64, data) : data \in ReportBytes}

\* A Pro Controller at NS2_INIT_DONE with its input device, both interfaces
\* bound, no calibration read yet.
InitTorn ==
    /\ switch2_controllers = << TheSession >>
    /\ alive = {TheSession}
    /\ nalloc = 1
    /\ ida = {0}
    /\ wire = [p \in Paths |-> << >>]
    /\ devtype = [p \in Paths |-> NS2_CTLR_TYPE_PRO]
    /\ seen = NoneSeen
    /\ work = NoWork
    /\ last = NoObs
    /\ hid = [p \in Paths |->
                IF p = MainPath THEN [pc |-> "bound", drvdata |-> TheSession]
                ELSE FreshHid]
    /\ usb = [p \in Paths |->
                IF p = MainPath
                THEN [ProbedUsb(TheSession) EXCEPT !.pc = "bound"]
                ELSE FreshUsb]
    /\ heap = [i \in Sessions |->
                 IF i = TheSession
                 THEN [ProbeRumble([ZeroController EXCEPT
                                      !.ctlr_type = NS2_CTLR_TYPE_PRO])
                         EXCEPT !.phys = MainPath, !.hdev = MainPath,
                                !.cfg = MainPath, !.input = "input",
                                !.init_step = NS2_INIT_DONE]
                 ELSE ZeroController]

NextTorn ==
    \/ \E f \in TornReplies : ParseBegin(MainPath, f)
    \/ ParseWrite(MainPath)
    \/ ParseEnd(MainPath)
    \/ \E r \in TornReports : EventStep(MainPath, r)

SpecTorn == InitTorn /\ [][NextTorn]_vars

\* The calibrations that are whole: the one kzalloc left and the ones parsed
\* from one reply.
WholeCalibs ==
    {ZeroStick} \cup
    {ParseStickCalibration(ZeroStick, ReplyBlock(f)).calib : f \in TornReplies}

\* A step in which switch2_event decodes the sticks of a report.
IsDecode ==
    /\ \E r \in TornReports : EventStep(MainPath, r)
    /\ last'.ret = 0 /\ last'.input # NULL

\* C27: the stick calibrations switch2_event applies to a report are whole:
\* each is entirely what one flash-read reply gave (or what the session was
\* created with), never partly one reply's and partly another's, and never
\* partly written.
C27_DecodeSeesWholeCalibration ==
    [][ IsDecode =>
          \A slot \in 1..2 : heap[TheSession].stick_calib[slot] \in WholeCalibs
      ]_vars


\* ------------------------------------------------------------ frame bounds
\* The offsets in the transfer buffer that switch2_handle_flash_read reads for
\* the declared size and address: the data starts at offset 16.
FlashReadOffsets(f, size, address) ==
    LET data(a, b) == {16 + k : k \in a..b}
        magic == Byte(f, 8) + Byte(f, 9) * 256
    IN  CASE address = NS2_FLASH_ADDR_SERIAL ->
               IF size # NS2_FLASH_SIZE_SERIAL THEN {} ELSE data(0, size - 1)
          [] address \in {NS2_FLASH_ADDR_FACTORY_PRIMARY_CALIB,
                          NS2_FLASH_ADDR_FACTORY_SECONDARY_CALIB} ->
               IF size # NS2_FLASH_SIZE_FACTORY_AXIS_CALIB THEN {} ELSE data(0, 8)
          [] address = NS2_FLASH_ADDR_FACTORY_TRIGGER_CALIB ->
               IF size # NS2_FLASH_SIZE_FACTORY_TRIGGER_CALIB THEN {} ELSE data(0, 1)
          [] address \in {NS2_FLASH_ADDR_USER_PRIMARY_CALIB,
                          NS2_FLASH_ADDR_USER_SECONDARY_CALIB} ->
               IF size # NS2_FLASH_SIZE_USER_AXIS_CALIB THEN {}
               ELSE IF magic # NS2_USER_CALIB_MAGIC THEN data(0, 1)
               ELSE data(0, 10)
          [] OTHER -> {}

\* The offsets in the transfer buffer that switch2_receive_command reads for
\* the frame f: none before the length test, the command and subcommand bytes
\* of the header, and what the branch taken reads.
ReadOffsets(f) ==
    IF f.length < CmdHeaderSize THEN {}
    ELSE IF f.command = NS2_CMD_FLASH
    THEN {0, 3} \cup
         (IF f.subcommand # NS2_SUBCMD_FLASH_READ \/ f.length < 16 THEN {}
          ELSE {8} \cup 12..15 \cup
               (IF f.length < Byte(f, 0) + 16 THEN {}
                ELSE FlashReadOffsets(f, Byte(f, 0), ReplyAddress(f))))
    ELSE IF f.command = NS2_CMD_FW_INFO
    THEN {0, 3} \cup
         (IF f.subcommand # NS2_SUBCMD_FW_INFO_GET \/ f.length < VersionInfoSize THEN {}
          ELSE {CmdHeaderSize + k : k \in 0..(VersionInfoSize - 1)})
    ELSE {0}

IsFwInfo(f) == f.command = NS2_CMD_FW_INFO /\ f.subcommand = NS2_SUBCMD_FW_INFO_GET

\* C28: switch2_receive_command reads no byte at an offset at or beyond the
\* delivered length of the frame; in particular a firmware-info reply that
\* is accepted, and so overwrites version and ctlr_type, is at least as long
\* as the header plus struct switch2_version_info.
C28_ReadsInsideFrame ==
    last.op = "reply" =>
      /\ \A o \in ReadOffsets(last.frame) : o < last.frame.length
      /\ (IsFwInfo(last.frame) /\ last.ret = 0
            /\ heap[TheSession].version = VersionInfo(last.frame)) =>
           last.frame.length >= CmdHeaderSize + VersionInfoSize


\* ------------------------------------------------------------ tick timing
\* The rumble ticks of an active encoder on a clock.  The work item's timer
\* runs a tick no earlier than the delay it was queued with; how much later
\* it runs is up to the workqueue.  A tick is one step here.
MaxClock == 12
Clock == 1..MaxClock

\* switch2_rumble_work run at time t, from its first to its last statement.
TickAt(id, t) ==
    /\ work[id].pending /\ work[id].pc = "idle"
    /\ t >= work[id].current_ms
    /\ last.op = "tick" => (~last.delay.wrapped /\ t >= last.at + last.delay.value)
    /\ LET r == RumbleWorkLocked(heap[id], t)
       IN  /\ heap' = [heap EXCEPT ![id] = r.ns2]
           /\ work' = [work EXCEPT
                         ![id].pending = r.schedule /\ heap[id].hdev # NULL,
                         ![id].current_ms = t,
                         ![id].buffer = r.buffer,
                         ![id].ticks = 0]
           /\ last' = IF heap[id].hdev = NULL
                      THEN [op |-> "nodev", ns2 |-> id]
                      ELSE [op |-> "tick", ns2 |-> id, at |-> t,
                            schedule |-> r.schedule, delay |-> r.delay,
                            buffer |-> r.buffer]
    /\ UNCHANGED << switch2_controllers, alive, nalloc, hid, usb, ida, wire,
                    devtype, seen >>

\* A controller at NS2_INIT_DONE on which switch2_play_effect has just set a
\* magnitude and queued the first tick.
InitDelay ==
    /\ switch2_controllers = << TheSession >>
    /\ alive = {TheSession}
    /\ nalloc = 1
    /\ ida = {0}
    /\ wire = [p \in Paths |-> << >>]
    /\ seen = NoneSeen
    /\ last = NoObs
    /\ hid = [p \in Paths |->
                IF p = MainPath THEN [pc |-> "bound", drvdata |-> TheSession]
                ELSE FreshHid]
    /\ usb = [p \in Paths |->
                IF p = MainPath
                THEN [ProbedUsb(TheSession) EXCEPT !.pc = "bound"]
                ELSE FreshUsb]
    /\ work = [NoWork EXCEPT ![TheSession].pending = TRUE]
    /\ \E type \in {NS2_CTLR_TYPE_PRO, NS2_CTLR_TYPE_GC},
          strong \in Magnitudes, weak \in Magnitudes :
         /\ devtype = [p \in Paths |-> type]
         /\ LET c == [ProbeRumble([ZeroController EXCEPT !.ctlr_type = type])
                        EXCEPT !.phys = MainPath, !.hdev = MainPath,
                               !.cfg = MainPath, !.init_step = NS2_INIT_DONE,
                               !.input = "input"]
            IN  heap = [i \in Sessions |->
                          IF i = TheSession THEN PlayEffectLocked(c, strong, weak)
                          ELSE ZeroController]

NextDelay == \E t \in Clock : TickAt(TheSession, t)

SpecDelay == InitDelay /\ [][NextDelay]_vars

\* C29: the delay an active tick asks for, last_rumble_work + interval -
\* current_ms, has not wrapped and lies between 0 and the interval, however
\* late the tick ran.
C29_DelayWithinInterval ==
    (last.op = "tick" /\ last.schedule) =>
      /\ ~last.delay.wrapped
      /\ last.delay.value >= 0 /\ last.delay.value <= Interval


\* ------------------------------------------------------------ unbinding
\* The ticks of SpecDelay, with the command path released at any time.
NextUnbind ==
    \/ \E t \in Clock : TickAt(TheSession, t)
    \/ UsbDisconnect(MainPath)

SpecUnbind == InitDelay /\ [][NextUnbind]_vars

\* A step in which a tick runs on session id.
IsTickAt(id) == \E t \in Clock : TickAt(id, t)

\* C30: once the command-path handle is unbound, the tick that was pending on
\* an active encoder does not emit: no rumble packet goes out while cfg is
\* NULL (switch2_play_effect cannot be called then: the input device is gone).
C30_NoPacketAfterUnbind ==
    [][ \A id \in alive :
          (heap[id].cfg = NULL /\ ~ZeroAmp(heap[id]) /\ IsTickAt(id)) =>
            last'.op # "tick"
      ]_vars


\* ------------------------------------------------------------ set_intensity
\* switch2_play_effect on the clock of the tick timing.  The magnitudes it is
\* called with: the ends of the 16-bit range, the last value that scales to 0
\* and the first that scales to 1.
Magnitudes16 == {0, 145, 146, U16_MAX}

\* The times followed.
MaxPlayClock == 6
PlayClock == 1..MaxPlayClock

\* The time of the last call observed.
PrevAt == IF last.op \in {"tick", "play"} THEN last.at ELSE 0

\* When the timer of the queued work item expires: what the last tick asked
\* for, or what the last switch2_play_effect left.
TimerDue ==
    CASE last.op = "tick" ->
           [wrapped |-> last.delay.wrapped, value |-> last.at + last.delay.value]
      [] last.op = "play" -> last.due
      [] OTHER -> NoDelay

\* switch2_play_effect for an FF_RUMBLE effect at time t, from its first to
\* its last statement.  schedule_delayed_work queues the item with the delay
\* given when it is not pending, and does nothing to an item that is pending:
\* its timer keeps the expiry it has.
PlayEffectAt(id, strong, weak, t) ==
    /\ id \in alive /\ heap[id].input # NULL
    /\ heap[id].rumble_lock = "free"
    /\ work[id].pc = "idle"
    /\ t >= PrevAt
    /\ heap' = [heap EXCEPT ![id] = PlayEffectLocked(@, strong, weak)]
    /\ work' = [work EXCEPT ![id].pending = TRUE]
    /\ last' = [op |-> "play", ns2 |-> id, strong |-> strong, weak |-> weak,
                at |-> t, queued |-> ~work[id].pending,
                due |-> IF work[id].pending THEN TimerDue
                        ELSE [wrapped |-> FALSE, value |-> t]]
    /\ UNCHANGED << switch2_controllers, alive, nalloc, hid, usb, ida, wire,
                    devtype, seen >>

\* A tick that runs when the timer of the work item has expired.
TickDue(id, t) ==
    /\ t >= PrevAt
    /\ last.op = "play" => (~last.due.wrapped /\ t >= last.due.value)
    /\ TickAt(id, t)

NextIntensity ==
    \/ \E strong \in Magnitudes16, weak \in Magnitudes16, t \in PlayClock :
         PlayEffectAt(TheSession, strong, weak, t)
    \/ \E t \in PlayClock : TickDue(TheSession, t)

SpecIntensity == InitDelay /\ [][NextIntensity]_vars

\* The larger of two numbers.
Max(a, b) == IF a > b THEN a ELSE b

\* What switch2_play_effect has stored is what the magnitudes of the call
\* scale to: on the GameCube controller the amplitude, on the others the two
\* 10-bit amplitudes, below RUMBLE_MAX.
AmplitudesStored ==
    LET c == heap[last.ns2]
    IN  IF c.ctlr_type = NS2_CTLR_TYPE_GC
        THEN SdAmplitude(c.rumble) = Max(last.strong, last.weak \div 2)
        ELSE /\ c.rumble.hi_amp = (last.weak * RUMBLE_MAX) \div 65536
             /\ c.rumble.lo_amp = (last.strong * RUMBLE_MAX) \div 65536
             /\ c.rumble.hi_amp <= RUMBLE_MAX - 1
             /\ c.rumble.lo_amp <= RUMBLE_MAX - 1

\* An emission is queued and its timer expires no later than time t.
EmissionDueBy(id, t) ==
    work[id].pending /\ ~TimerDue.wrapped /\ TimerDue.value <= t

\* C31: after set_intensity (switch2_play_effect) the amplitudes stored are
\* floor(weak * 450 / 65536) and floor(strong * 450 / 65536), at most 449, on
\* a controller that is not the GameCube one, and max(strong, floor(weak / 2))
\* on the GameCube one; in both cases an emission is scheduled with zero
\* delay: one is due at the time of the call.
C31_StoresAndSchedulesAtOnce ==
    last.op = "play" =>
      /\ AmplitudesStored
      /\ EmissionDueBy(last.ns2, last.at)

\* The first half alone: the amplitudes stored by the last call.
AmplitudesAfterPlay == last.op = "play" => AmplitudesStored


\* ------------------------------------------------------------ sequence
\* The rumble ticks of a session whose HID interface is removed and attached
\* again while the command path stays bound, with the headers of the reports
\* that went out: seen holds the header byte of the last report emitted for
\* the session.  The controller's replies to the initialization that the new
\* attachment starts are not followed: the ticks are those queued before the
\* input device was unregistered.
Header(buffer) == <<"header", buffer.seq>>

TickSendSeen(id) ==
    /\ TickSendStep(id)
    /\ seen' = IF last'.op = "packet"
               THEN [seen EXCEPT ![id] = {Header(last'.buffer)}]
               ELSE seen

NextSeq ==
    \/ \E strong \in {0, U16_MAX} : PlayEffect(TheSession, strong, 0)
    \/ TickStart(TheSession)
    \/ TickLocked(TheSession)
    \/ TickSendSeen(TheSession)
    \/ RemoveLock(MainPath)
    \/ RemoveCancelSync(MainPath)
    \/ RemoveClear(MainPath)
    \/ RemovePut(MainPath)
    \/ HidProbe(MainPath)

SpecSeq == InitRumble /\ [][NextSeq]_vars

\* The header byte that follows header byte h: 0x50 with the next 4-bit value.
NextHeader(h) == 80 + ((h - 80 + 1) % 16)

\* A step in which a tick emits its report.
IsEmission(id) == TickSendSeen(id) /\ last'.op = "packet"

\* C32: the header of each report emitted carries the 4-bit sequence value,
\* the headers of reports emitted one after the other for a session carry
\* consecutive values modulo 16, and the two sub-packets of a Pro Controller
\* report carry the same value.
C32_ConsecutiveSeq ==
    [][ \A id \in alive :
          IsEmission(id) =>
            /\ last'.buffer.seq \in 80..95
            /\ \A h \in seen[id] : last'.buffer.seq = NextHeader(h[2])
            /\ last'.buffer.kind = 2 => last'.buffer.seq2 = last'.buffer.seq
      ]_vars


\* The tick alone: the report it builds carries the sequence value the session
\* holds, in both sub-packets of the Pro Controller, and the tick leaves the
\* next value modulo 16 in the session.
SeqEmbeddedThenIncremented ==
    [][ \A id \in alive :
          IsTickLocked(id) =>
            /\ work'[id].buffer.seq = 80 + heap[id].rumble_seq
            /\ heap'[id].rumble_seq = (heap[id].rumble_seq + 1) % 16
            /\ work'[id].buffer.kind = 2 => work'[id].buffer.seq2 = work'[id].buffer.seq
      ]_vars


\* ------------------------------------------------------------ duty pattern
\* The ticks of the GameCube controller's encoder taken alone: the locked
\* section of switch2_rumble_work applied again and again to a session,
\* with switch2_play_effect changing the amplitude in between.  last counts
\* the ticks (n) and the ON reports among them (k) since the amplitude was
\* last set, and whether the error was 0 then (from0).
MaxErmTicks == 8
ErmStrong == {0, 1, 21845, U16_MAX}
ErmWeak == {0, U16_MAX}
\* The weak magnitudes of a call made before the type was known: 65100 scales
\* to 447, whose low six bits, the top of the error, are all ones.
ErmBefore == {0, 65100}

ErmObs(op, c, buffer, n, k, from0, total) ==
    [op |-> op, ns2 |-> TheSession, buffer |-> buffer,
     amplitude |-> SdAmplitude(c.rumble), n |-> n, k |-> k, from0 |-> from0,
     total |-> total]

\* switch2_play_effect on the GameCube controller, the section under rumble_lock.
ErmPlay(id, strong, weak) ==
    /\ id \in alive /\ heap[id].input # NULL
    /\ LET c == PlayEffectLocked(heap[id], strong, weak)
       IN  /\ heap' = [heap EXCEPT ![id] = c]
           /\ last' = ErmObs("play", c, last.buffer, 0, 0, SdError(c.rumble) = 0,
                             last.total)
    /\ UNCHANGED << switch2_controllers, alive, nalloc, hid, usb, ida, wire,
                    devtype, seen, work >>

\* switch2_rumble_work on the GameCube controller, the section under
\* rumble_lock.  A tick that finds the amplitude 0 resets the error.
ErmTick(id) ==
    /\ id \in alive
    /\ last.total < MaxErmTicks
    /\ LET r  == RumbleWorkLocked(heap[id], 1)
           on == IF r.buffer.body = <<GC_RUMBLE_ON>> THEN 1 ELSE 0
       IN  /\ heap' = [heap EXCEPT ![id] = r.ns2]
           /\ last' = IF SdAmplitude(heap[id].rumble) = 0
                      THEN ErmObs("stop", r.ns2, r.buffer, 0, 0, TRUE, last.total + 1)
                      ELSE ErmObs("erm", r.ns2, r.buffer, last.n + 1, last.k + on,
                                  last.from0, last.total + 1)
    /\ UNCHANGED << switch2_controllers, alive, nalloc, hid, usb, ida, wire,
                    devtype, seen, work >>

\* A GameCube controller at NS2_INIT_DONE on which switch2_play_effect has set
\* an amplitude.  Its rumble storage before that is as kzalloc left it, or
\* as a switch2_probe that ran before the type was known left it, with what
\* a switch2_play_effect of that time stored in hi_amp.
InitErm ==
    /\ switch2_controllers = << TheSession >>
    /\ alive = {TheSession}
    /\ nalloc = 1
    /\ ida = {0}
    /\ wire = [p \in Paths |-> << >>]
    /\ seen = NoneSeen
    /\ work = NoWork
    /\ devtype = [p \in Paths |-> NS2_CTLR_TYPE_GC]
    /\ hid = [p \in Paths |->
                IF p = MainPath THEN [pc |-> "bound", drvdata |-> TheSession]
                ELSE FreshHid]
    /\ usb = [p \in Paths |->
                IF p = MainPath
                THEN [ProbedUsb(TheSession) EXCEPT !.pc = "bound"]
                ELSE FreshUsb]
    /\ \E probed \in BOOLEAN, before \in ErmBefore,
          strong \in ErmStrong, weak \in ErmWeak :
         LET z == [ZeroController EXCEPT !.phys = MainPath, !.hdev = MainPath,
                                         !.cfg = MainPath]
             b == IF probed THEN PlayEffectLocked(ProbeRumble(z), 0, before) ELSE z
             c == PlayEffectLocked(
                    [b EXCEPT !.init_step = NS2_INIT_DONE,
                              !.ctlr_type = NS2_CTLR_TYPE_GC,
                              !.input = "input"], strong, weak)
         IN  /\ heap = [i \in Sessions |-> IF i = TheSession THEN c ELSE ZeroController]
             /\ last = ErmObs("play", c, NoPacket, 0, 0, SdError(c.rumble) = 0, 0)

NextErm ==
    \/ \E strong \in ErmStrong, weak \in ErmWeak : ErmPlay(TheSession, strong, weak)
    \/ ErmTick(TheSession)

SpecErm == InitErm /\ [][NextErm]_vars

\* A step in which a tick finds a nonzero amplitude.
IsErmTick == ErmTick(TheSession) /\ last'.op = "erm"

\* C33: on the GameCube controller a tick with a nonzero amplitude A leaves
\* the error at error + 65535 - A or at error - A exactly, with no 16-bit
\* wrap, and between 0 and 65534; and when the error was 0 when A was set,
\* the number k of ON reports among the n ticks since satisfies
\* 0 <= 65535 * k - A * n < 65535.
C33_ErrorBoundedDutyExact ==
    [][ IsErmTick =>
          LET A  == SdAmplitude(heap[TheSession].rumble)
              e  == SdError(heap[TheSession].rumble)
              e2 == SdError(heap'[TheSession].rumble)
              on == last'.buffer.body = <<GC_RUMBLE_ON>>
          IN  /\ on => e2 = e + U16_MAX - A
              /\ ~on => e2 = e - A
              /\ e2 >= 0 /\ e2 <= U16_MAX - 1
              /\ SdAmplitude(heap'[TheSession].rumble) = A
              /\ last'.from0 =>
                   /\ 0 <= U16_MAX * last'.k - A * last'.n
                   /\ U16_MAX * last'.k - A * last'.n < U16_MAX
      ]_vars

\* C33 witness: at a constant amplitude set when the error was 0, at least
\* three ticks have run, some with an ON report and some with an OFF report.
C33_Witness ==
    /\ last.op = "erm" /\ last.from0
    /\ last.n >= 3 /\ last.k >= 1 /\ last.k < last.n
    /\ last.amplitude \notin {0, U16_MAX}


\* ------------------------------------------------------------ output slots
\* The answering device of SpecReattach with the command path staying bound
\* once it is, whose output transfers complete with any status.  A transfer
\* that completed with an error did not carry its command to the controller:
\* the command sent last is never answered.

\* switch2_bulk_out for a transfer that completed with an error status.
UrbFail(p) ==
    \E slot \in 1..NS2_OUT_URBS, status \in UrbStatuses \ {0} :
      /\ BulkOutStep(p, slot, status)
      /\ wire' = [wire EXCEPT ![p] = SubSeq(@, 1, Len(@) - 1)]
      /\ UNCHANGED << devtype, seen, work >>

NextOut ==
    \/ HidProbeAgain(MainPath)
    \/ UsbProbeAgain(MainPath)
    \/ DeviceReply(MainPath)
    \/ UrbComplete(MainPath)
    \/ UrbFail(MainPath)
    \/ HidRemove(MainPath)

\* The controller at the port is a Pro Controller.
InitOut == InitLive /\ devtype[MainPath] = NS2_CTLR_TYPE_PRO

SpecOut == InitOut /\ [][NextOut]_vars

\* Every output slot of the handle is claimed and none is in flight: no
\* completion is to come, and switch2_usb_send_cmd returns -ENOBUFS.
QueueStuck(p) ==
    /\ usb[p].pc = "bound"
    /\ \A slot \in 1..NS2_OUT_URBS :
         usb[p].bulk_out[slot].active /\ ~usb[p].bulk_out[slot].submitted

NeverStuck == \A p \in Paths : ~QueueStuck(p)

\* C34: an output slot claimed by switch2_usb_send_cmd is released when its
\* transfer completes, whatever the status: a slot that is still claimed has
\* its transfer in flight, so the four slots are never all claimed with no
\* completion to come.
C34_CompletedSlotReleased ==
    \A p \in Paths :
      usb[p].pc = "bound" =>
        \A slot \in 1..NS2_OUT_URBS :
          usb[p].bulk_out[slot].active => usb[p].bulk_out[slot].submitted

=============================================================================
